---- MODULE Spec2Model ----
(***************************************************************************)
(* Phase orchestration engine of auto-build: the spec-creation pipeline    *)
(* of spec_runner.py (SpecOrchestrator), run after run on one directory.   *)
(*                                                                         *)
(* The task directory is a record of file contents, abstracted to what the *)
(* code reads of each file.  The reasoning agent and the helper scripts    *)
(* are external: one action each, whose outcome (return flag, files        *)
(* written) is chosen nondeterministically.  A phase is split at the       *)
(* points where it waits for the agent or a script and at every            *)
(* open(..., "w") + json.dump, because KeyboardInterrupt can arrive there. *)
(***************************************************************************)
EXTENDS Integers, Sequences, FiniteSets, TLC

\* spec_runner.py:82
MAX_RETRIES == 3

\* runs of spec_runner.py on one task directory in a history
MaxRuns == 2

\* phases whose agent or helper script misbehaves in a history
MaxFaultyPhases == 1

VARIABLES
    fs,              \* task directory: file -> abstract content
    task,            \* signals of the task description the directory is for
    cfg,             \* constructor arguments of the runs on this directory
    pc,              \* position of run(): "idle", a phase name, "dispatch", or an end state
    step,            \* position inside the phase function
    attempt,         \* loop variable `attempt` of the phase
    nerr,            \* len(errors) of the phase
    ret,             \* (success, output) of the last _run_agent / _run_script call
    assessment,      \* self.assessment
    todo,            \* rest of phases_to_run in run()'s for loop
    lastResult,      \* the PhaseResult returned last in this run
    executed,        \* phases run() has started in this run, in order
    agentCalls,      \* _run_agent calls made by the current phase execution
    scriptCalls,     \* _run_script calls made by the current phase execution
    pendingWrite,    \* an open(..., "w") whose json.dump has not finished
    completedBefore, \* phases that returned success in an earlier run
    runs,            \* runs started on the directory
    faulty,          \* phases whose agent or script has misbehaved
    entry,           \* the task directory as the phase in progress found it
    prevEnd,         \* how the run before this one ended
    description,     \* task_description: a sequence of characters
    requirements,    \* the requirements dict handed to analyze(), or none
    project_index,   \* the project index the ComplexityAnalyzer is built with
    specs_dir,       \* the specs directory: name of a spec directory -> what it holds
    spec_dir,        \* self.spec_dir.name
    starting,        \* orchestrators under construction: where __init__ stands, the path chosen
    results,         \* the list `results` of an ideation run(): the phase results so far
    adapters,        \* the module-level registry _adapters: framework name -> class
    instances,       \* the adapter instances get_adapter has created
    call             \* the last call of a library function and how it ended

vars == <<fs, task, cfg, pc, step, attempt, nerr, ret, assessment,
          todo, lastResult, executed, agentCalls, scriptCalls, pendingWrite,
          completedBefore, runs, faulty, entry, prevEnd,
          description, requirements, project_index, specs_dir, spec_dir,
          starting, results, adapters, instances, call>>

\* the models and adapters packages of auto-claude
library == <<adapters, instances, call>>

\* no function of the library has been called
NoCall == [fn |-> "", arg |-> "", raised |-> "", value |-> "", id |-> 0,
           message |-> "", listed |-> <<>>]

\* the packages as imported: nothing registered, nothing called
LibraryIdle ==
    /\ results = <<>>
    /\ adapters = <<>>
    /\ instances = {}
    /\ call = NoCall

\* the specs directory and the orchestrator's place in it
naming == <<specs_dir, spec_dir, starting>>

\* orchestrators constructed at the same time on one specs directory
MaxStarters == 2

Starters == 1..MaxStarters

\* __init__ has not begun
NotStarted == [at |-> "new", path |-> <<>>, existed |-> FALSE]

NoStarters == [p \in Starters |-> NotStarted]

\* what the pipeline carries along without looking at it: it works on the
\* signals of the description (task)
aside == <<description, requirements, project_index, naming, results, library>>

-----------------------------------------------------------------------------
(* Complexity tiers and phase lists                                        *)

Tiers == {"simple", "standard", "complex"}

\* tier defaults in which a standard task is always researched
DefaultPhasesResearched(complexity, needs_research) ==
    IF complexity = "simple"
    THEN <<"discovery", "quick_spec", "validation">>
    ELSE IF complexity = "standard"
    THEN <<"discovery", "requirements", "research", "context", "spec_writing",
           "planning", "validation">>
    ELSE <<"discovery", "requirements", "research", "context", "spec_writing",
           "self_critique", "planning", "validation">>

\* ComplexityAssessment.phases_to_run, the tier defaults
DefaultPhases(complexity, needs_research) ==
    IF complexity = "simple"
    THEN <<"discovery", "quick_spec", "validation">>
    ELSE IF complexity = "standard"
    THEN <<"discovery", "requirements">>
         \o (IF needs_research THEN <<"research">> ELSE <<>>)
         \o <<"context", "spec_writing", "planning", "validation">>
    ELSE <<"discovery", "requirements", "research", "context", "spec_writing",
           "self_critique", "planning", "validation">>

\* a phase plan that looks at the tier only
phases_to_run_by_tier(a) == DefaultPhases(a.complexity, a.needs_research)

\* ComplexityAssessment.phases_to_run
phases_to_run(a) ==
    IF a.recommended_phases # <<>>
    THEN a.recommended_phases
    ELSE DefaultPhases(a.complexity, a.needs_research)

\* keys of all_phases in SpecOrchestrator.run
all_phases == {"research", "context", "spec_writing", "self_critique",
               "planning", "validation", "quick_spec"}

RECURSIVE SelectSeqNotIn(_, _)
SelectSeqNotIn(s, drop) ==
    IF s = <<>> THEN <<>>
    ELSE IF Head(s) \in drop THEN SelectSeqNotIn(Tail(s), drop)
    ELSE <<Head(s)>> \o SelectSeqNotIn(Tail(s), drop)

\* run(): [p for p in all_phases_to_run if p not in ["discovery", "requirements"]]
RemainingPhases(a) == SelectSeqNotIn(phases_to_run(a), {"discovery", "requirements"})

Range(s) == {s[i] : i \in 1..Len(s)}

-----------------------------------------------------------------------------
(* Heuristic classifier on the signals of a task                           *)

\* a rule that calls a task complex from two complex keywords on
calculate_complexity_eager(sig) ==
    IF /\ sig.files <= 2
       /\ sig.services = 1
       /\ sig.integrations = 0
       /\ ~sig.infra
       /\ sig.simple_kw > 0
       /\ sig.complex_kw = 0
    THEN <<"simple", 90>>
    ELSE IF \/ sig.integrations >= 2
            \/ sig.infra
            \/ sig.services >= 3
            \/ sig.files >= 10
            \/ sig.complex_kw >= 2
    THEN <<"complex", 85>>
    ELSE <<"standard", 75>>

\* a rule that wants four complex keywords
calculate_complexity_slow(sig) ==
    IF /\ sig.files <= 2
       /\ sig.services = 1
       /\ sig.integrations = 0
       /\ ~sig.infra
       /\ sig.simple_kw > 0
       /\ sig.complex_kw = 0
    THEN <<"simple", 90>>
    ELSE IF \/ sig.integrations >= 2
            \/ sig.infra
            \/ sig.services >= 3
            \/ sig.files >= 10
            \/ sig.complex_kw >= 4
    THEN <<"complex", 85>>
    ELSE <<"standard", 75>>

\* ComplexityAnalyzer._calculate_complexity: <<tier, confidence in percent>>
calculate_complexity(sig) ==
    IF /\ sig.files <= 2
       /\ sig.services = 1
       /\ sig.integrations = 0
       /\ ~sig.infra
       /\ sig.simple_kw > 0
       /\ sig.complex_kw = 0
    THEN <<"simple", 90>>
    ELSE IF \/ sig.integrations >= 2
            \/ sig.infra
            \/ sig.services >= 3
            \/ sig.files >= 10
            \/ sig.complex_kw >= 3
    THEN <<"complex", 85>>
    ELSE <<"standard", 75>>

\* largest keyword or integration count drawn, and largest service estimate
MaxSignal == 3

\* an analyze() that adds the services named to the estimate
WithServicesAdded(sig, services_involved) ==
    [sig EXCEPT !.services = @ + services_involved]

\* analyze(): estimated_services = max(estimated_services, len(services_involved))
WithServices(sig, services_involved) ==
    [sig EXCEPT !.services = IF services_involved > @ THEN services_involved ELSE @]

\* analyze(task_description): requirements = None
NoRequirements == [given |-> FALSE, services_involved |-> 0]

NoAssessment ==
    [complexity |-> "none", confidence |-> 0, reasoning |-> "",
     recommended_phases |-> <<>>, needs_research |-> FALSE,
     needs_self_critique |-> FALSE]

\* ComplexityAnalyzer.analyze: the ComplexityAssessment it constructs
analyze(sig) ==
    [complexity |-> calculate_complexity(sig)[1],
     confidence |-> calculate_complexity(sig)[2],
     reasoning |-> "heuristic",
     recommended_phases |-> <<>>,
     needs_research |-> FALSE,
     needs_self_critique |-> FALSE]

\* an override that kept the confidence of a heuristic guess
OverrideAssessmentUnsure(tier) ==
    [complexity |-> tier, confidence |-> 75,
     reasoning |-> "Manual override: " \o tier,
     recommended_phases |-> <<>>, needs_research |-> FALSE,
     needs_self_critique |-> FALSE]

\* the assessment built for complexity_override
OverrideAssessment(tier) ==
    [complexity |-> tier, confidence |-> 100,
     reasoning |-> "Manual override: " \o tier,
     recommended_phases |-> <<>>, needs_research |-> FALSE,
     needs_self_critique |-> FALSE]

-----------------------------------------------------------------------------
(* The heuristic classifier on the text of a task description.  A text is  *)
(* a sequence of characters; `kw in task_lower` is a search for the        *)
(* characters of kw, and a pattern \bword\b is a search for them between   *)
(* two word boundaries.                                                    *)

Uppers ==
    <<"A", "B", "C", "D", "E", "F", "G", "H", "I", "J", "K", "L", "M",
      "N", "O", "P", "Q", "R", "S", "T", "U", "V", "W", "X", "Y", "Z">>

Lowers ==
    <<"a", "b", "c", "d", "e", "f", "g", "h", "i", "j", "k", "l", "m",
      "n", "o", "p", "q", "r", "s", "t", "u", "v", "w", "x", "y", "z">>

Digits == {"0", "1", "2", "3", "4", "5", "6", "7", "8", "9"}

\* the lower-case letter of each upper-case letter
LowerOf == [c \in Range(Uppers) |-> Lowers[CHOOSE i \in 1..Len(Uppers) : Uppers[i] = c]]

\* str.lower() on one character
LowerChar(c) == IF c \in DOMAIN LowerOf THEN LowerOf[c] ELSE c

\* task_description.lower()
lower(t) == [i \in 1..Len(t) |-> LowerChar(t[i])]

\* the characters of p stand in t from position i on
MatchAt(p, t, i) ==
    /\ i >= 1
    /\ i + Len(p) - 1 <= Len(t)
    /\ \A j \in 1..Len(p) : t[i + j - 1] = p[j]

\* kw in t
Occurs(kw, t) == \E i \in 1..(Len(t) - Len(kw) + 1) : MatchAt(kw, t, i)

\* the characters \w of the re module matches
WordChars == Range(Lowers) \cup Range(Uppers) \cup Digits \cup {"_"}

WordChar(c) == c \in WordChars

\* \b between t[i] and t[i + 1]: a word character on one side only
Boundary(t, i) ==
    (i >= 1 /\ i <= Len(t) /\ WordChar(t[i])) #
    (i + 1 >= 1 /\ i + 1 <= Len(t) /\ WordChar(t[i + 1]))

\* re.search(r'\bp\b', t) for a pattern p without operators
WordMatch(p, t) ==
    \E i \in 1..(Len(t) - Len(p) + 1) :
        MatchAt(p, t, i) /\ Boundary(t, i - 1) /\ Boundary(t, i + Len(p) - 1)

\* ComplexityAnalyzer.SIMPLE_KEYWORDS
SIMPLE_KEYWORDS ==
    { <<"f", "i", "x">>, <<"t", "y", "p", "o">>,
      <<"u", "p", "d", "a", "t", "e">>, <<"c", "h", "a", "n", "g", "e">>,
      <<"r", "e", "n", "a", "m", "e">>, <<"r", "e", "m", "o", "v", "e">>,
      <<"d", "e", "l", "e", "t", "e">>, <<"a", "d", "j", "u", "s", "t">>,
      <<"t", "w", "e", "a", "k">>, <<"c", "o", "r", "r", "e", "c", "t">>,
      <<"m", "o", "d", "i", "f", "y">>, <<"s", "t", "y", "l", "e">>,
      <<"c", "o", "l", "o", "r">>, <<"t", "e", "x", "t">>,
      <<"l", "a", "b", "e", "l">>, <<"b", "u", "t", "t", "o", "n">>,
      <<"m", "a", "r", "g", "i", "n">>,
      <<"p", "a", "d", "d", "i", "n", "g">>, <<"f", "o", "n", "t">>,
      <<"s", "i", "z", "e">>, <<"h", "i", "d", "e">>, <<"s", "h", "o", "w">> }

\* ComplexityAnalyzer.COMPLEX_KEYWORDS
COMPLEX_KEYWORDS ==
    { <<"i", "n", "t", "e", "g", "r", "a", "t", "e">>,
      <<"i", "n", "t", "e", "g", "r", "a", "t", "i", "o", "n">>,
      <<"a", "p", "i">>, <<"s", "d", "k">>,
      <<"l", "i", "b", "r", "a", "r", "y">>,
      <<"p", "a", "c", "k", "a", "g", "e">>,
      <<"d", "a", "t", "a", "b", "a", "s", "e">>,
      <<"m", "i", "g", "r", "a", "t", "e">>,
      <<"m", "i", "g", "r", "a", "t", "i", "o", "n">>,
      <<"d", "o", "c", "k", "e", "r">>,
      <<"k", "u", "b", "e", "r", "n", "e", "t", "e", "s">>,
      <<"d", "e", "p", "l", "o", "y">>,
      <<"a", "u", "t", "h", "e", "n", "t", "i", "c", "a", "t", "i", "o", "n">>,
      <<"o", "a", "u", "t", "h">>, <<"g", "r", "a", "p", "h", "q", "l">>,
      <<"w", "e", "b", "s", "o", "c", "k", "e", "t">>,
      <<"q", "u", "e", "u", "e">>, <<"c", "a", "c", "h", "e">>,
      <<"r", "e", "d", "i", "s">>,
      <<"p", "o", "s", "t", "g", "r", "e", "s">>,
      <<"m", "o", "n", "g", "o">>,
      <<"e", "l", "a", "s", "t", "i", "c", "s", "e", "a", "r", "c", "h">>,
      <<"k", "a", "f", "k", "a">>,
      <<"r", "a", "b", "b", "i", "t", "m", "q">>,
      <<"m", "i", "c", "r", "o", "s", "e", "r", "v", "i", "c", "e">>,
      <<"r", "e", "f", "a", "c", "t", "o", "r">>,
      <<"a", "r", "c", "h", "i", "t", "e", "c", "t", "u", "r", "e">>,
      <<"i", "n", "f", "r", "a", "s", "t", "r", "u", "c", "t", "u", "r", "e">> }

\* ComplexityAnalyzer.MULTI_SERVICE_KEYWORDS
MULTI_SERVICE_KEYWORDS ==
    { <<"b", "a", "c", "k", "e", "n", "d">>,
      <<"f", "r", "o", "n", "t", "e", "n", "d">>,
      <<"w", "o", "r", "k", "e", "r">>,
      <<"s", "e", "r", "v", "i", "c", "e">>, <<"a", "p", "i">>,
      <<"c", "l", "i", "e", "n", "t">>, <<"s", "e", "r", "v", "e", "r">>,
      <<"d", "a", "t", "a", "b", "a", "s", "e">>,
      <<"q", "u", "e", "u", "e">>, <<"c", "a", "c", "h", "e">>,
      <<"p", "r", "o", "x", "y">> }

\* _detect_integrations: the alternatives of each pattern \b(a|b|...)\b
integration_patterns ==
    << { <<"g", "r", "a", "p", "h", "i", "t", "i">>,
         <<"g", "r", "a", "p", "h", "q", "l">>,
         <<"a", "p", "o", "l", "l", "o">> },
       { <<"s", "t", "r", "i", "p", "e">>, <<"p", "a", "y", "p", "a", "l">>,
         <<"p", "a", "y", "m", "e", "n", "t">> },
       { <<"a", "u", "t", "h", "0">>, <<"o", "k", "t", "a">>,
         <<"o", "a", "u", "t", "h">>, <<"j", "w", "t">> },
       { <<"a", "w", "s">>, <<"g", "c", "p">>, <<"a", "z", "u", "r", "e">>,
         <<"s", "3">>, <<"l", "a", "m", "b", "d", "a">> },
       { <<"r", "e", "d", "i", "s">>,
         <<"m", "e", "m", "c", "a", "c", "h", "e", "d">>,
         <<"c", "a", "c", "h", "e">> },
       { <<"p", "o", "s", "t", "g", "r", "e", "s">>,
         <<"m", "y", "s", "q", "l">>, <<"m", "o", "n", "g", "o", "d", "b">>,
         <<"d", "a", "t", "a", "b", "a", "s", "e">> },
       { <<"e", "l", "a", "s", "t", "i", "c", "s", "e", "a", "r", "c", "h">>,
         <<"a", "l", "g", "o", "l", "i", "a">>,
         <<"s", "e", "a", "r", "c", "h">> },
       { <<"k", "a", "f", "k", "a">>,
         <<"r", "a", "b", "b", "i", "t", "m", "q">>, <<"s", "q", "s">>,
         <<"q", "u", "e", "u", "e">> },
       { <<"d", "o", "c", "k", "e", "r">>,
         <<"k", "u", "b", "e", "r", "n", "e", "t", "e", "s">>,
         <<"k", "8", "s">> },
       { <<"o", "p", "e", "n", "a", "i">>,
         <<"a", "n", "t", "h", "r", "o", "p", "i", "c">>, <<"l", "l", "m">>,
         <<"a", "i">> },
       { <<"s", "e", "n", "d", "g", "r", "i", "d">>,
         <<"t", "w", "i", "l", "i", "o">>, <<"e", "m", "a", "i", "l">>,
         <<"s", "m", "s">> } >>

\* _detect_infrastructure_changes: the patterns, each between two \b
infra_patterns ==
    { <<"d", "o", "c", "k", "e", "r">>,
      <<"k", "u", "b", "e", "r", "n", "e", "t", "e", "s">>,
      <<"k", "8", "s">>, <<"d", "e", "p", "l", "o", "y">>,
      <<"i", "n", "f", "r", "a", "s", "t", "r", "u", "c", "t", "u", "r", "e">>,
      <<"c", "i", "/", "c", "d">>,
      <<"e", "n", "v", "i", "r", "o", "n", "m", "e", "n", "t">>,
      <<"c", "o", "n", "f", "i", "g">>, <<".", "e", "n", "v">>,
      <<"d", "a", "t", "a", "b", "a", "s", "e", " ", "m", "i", "g", "r", "a", "t", "i", "o", "n">>,
      <<"s", "c", "h", "e", "m", "a">> }

\* _detect_integrations: list(set(found)), found holding every word a pattern
\* matched; an alternative is made of word characters, so between two \b it
\* matches a whole word and the matches of one pattern cannot overlap
detect_integrations(t) ==
    UNION { {a \in integration_patterns[k] : WordMatch(a, t)} :
            k \in 1..Len(integration_patterns) }

\* _detect_infrastructure_changes
detect_infrastructure_changes(t) == \E p \in infra_patterns : WordMatch(p, t)

\* _estimate_files: the words that mean one file
SingleFileWords ==
    { <<"s", "i", "n", "g", "l", "e">>,
      <<"o", "n", "e", " ", "f", "i", "l", "e">>,
      <<"o", "n", "e", " ", "c", "o", "m", "p", "o", "n", "e", "n", "t">>,
      <<"t", "h", "i", "s", " ", "f", "i", "l", "e">> }

\* _estimate_files: the alternatives of \.(tsx?|jsx?|py|...)\b
FileExtensions ==
    { <<"t", "s">>, <<"t", "s", "x">>, <<"j", "s">>, <<"j", "s", "x">>,
      <<"p", "y">>, <<"g", "o">>, <<"r", "s">>, <<"j", "a", "v", "a">>,
      <<"r", "b">>, <<"p", "h", "p">>, <<"v", "u", "e">>,
      <<"s", "v", "e", "l", "t", "e">> }

\* _estimate_files: the feature-type words
FeatureWords ==
    { <<"f", "e", "a", "t", "u", "r", "e">>, <<"a", "d", "d">>,
      <<"i", "m", "p", "l", "e", "m", "e", "n", "t">>,
      <<"c", "r", "e", "a", "t", "e">> }

\* len(re.findall(r'\.(tsx?|jsx?|py|go|rs|java|rb|php|vue|svelte)\b', t)): a
\* match starts at a "." and holds no other, so matches are counted by their start
file_mentions(t) ==
    Cardinality({ i \in 1..Len(t) :
                    /\ t[i] = "."
                    /\ \E x \in FileExtensions :
                          MatchAt(x, t, i + 1) /\ Boundary(t, i + Len(x)) })

\* an estimate in which the file mentions come first
estimate_files_by_mentions(t) ==
    IF file_mentions(t) > 0 THEN file_mentions(t)
    ELSE IF \E kw \in SingleFileWords : Occurs(kw, t) THEN 1
    ELSE IF \E kw \in SIMPLE_KEYWORDS : Occurs(kw, t) THEN 2
    ELSE IF \E kw \in FeatureWords : Occurs(kw, t) THEN 5
    ELSE IF \E kw \in COMPLEX_KEYWORDS : Occurs(kw, t) THEN 15
    ELSE 5

\* _estimate_files
estimate_files(t) ==
    IF \E kw \in SingleFileWords : Occurs(kw, t) THEN 1
    ELSE IF file_mentions(t) > 0 THEN file_mentions(t)
    ELSE IF \E kw \in SIMPLE_KEYWORDS : Occurs(kw, t) THEN 2
    ELSE IF \E kw \in FeatureWords : Occurs(kw, t) THEN 5
    ELSE IF \E kw \in COMPLEX_KEYWORDS : Occurs(kw, t) THEN 15
    ELSE 5

\* ComplexityAnalyzer(project_index): no index, or the index of a monorepo
NoIndex == [project_type |-> "", services |-> {}]

\* _estimate_services
estimate_services(t, index) ==
    LET service_count == Cardinality({kw \in MULTI_SERVICE_KEYWORDS : Occurs(kw, t)})
        mentioned == Cardinality({svc \in index.services : Occurs(lower(svc), t)})
    IN  IF index.project_type = "monorepo" /\ index.services # {} /\ mentioned > 0
        THEN mentioned
        ELSE IF service_count < 1 THEN 1
        ELSE IF service_count > 5 THEN 5
        ELSE service_count

\* analyze: the signals it collects from the text
Signals(text, index) ==
    LET task_lower == lower(text)
    IN  [files |-> estimate_files(task_lower),
         services |-> estimate_services(task_lower, index),
         integrations |-> Cardinality(detect_integrations(task_lower)),
         infra |-> detect_infrastructure_changes(task_lower),
         simple_kw |-> Cardinality({kw \in SIMPLE_KEYWORDS : Occurs(kw, task_lower)}),
         complex_kw |-> Cardinality({kw \in COMPLEX_KEYWORDS : Occurs(kw, task_lower)})]

\* analyze: `if requirements:` and what it does to the service estimate
WithRequirements(sig, req) ==
    IF req.given THEN WithServices(sig, req.services_involved) ELSE sig

-----------------------------------------------------------------------------
\* task descriptions, by the signals analyze() extracts from them
Tasks ==
    { [files |-> 2, services |-> 1, integrations |-> 0, infra |-> FALSE,
       simple_kw |-> 1, complex_kw |-> 0],
      [files |-> 5, services |-> 1, integrations |-> 1, infra |-> FALSE,
       simple_kw |-> 0, complex_kw |-> 1],
      [files |-> 15, services |-> 3, integrations |-> 3, infra |-> TRUE,
       simple_kw |-> 0, complex_kw |-> 3] }

-----------------------------------------------------------------------------
(* The task directory                                                      *)

Files == {"index", "req", "assess", "research", "context", "spec", "critique", "plan"}

\* complexity_assessment.json: st is "absent", "partial" (truncated by an
\* interrupted write), "malformed" (not JSON), or "ok"; by is who wrote it
AssessFile(st, by, complexity, phases, nr, nsc, conf, reasoning) ==
    [st |-> st, by |-> by, complexity |-> complexity, phases |-> phases,
     nr |-> nr, nsc |-> nsc, conf |-> conf, reasoning |-> reasoning]

AssessAbsent == AssessFile("absent", "", "", <<>>, FALSE, FALSE, 0, "")
AssessPartial == AssessFile("partial", "", "", <<>>, FALSE, FALSE, 0, "")
AssessMalformed == AssessFile("malformed", "agent", "", <<>>, FALSE, FALSE, 0, "")

EmptyDir ==
    [index |-> "absent", req |-> "absent", assess |-> AssessAbsent,
     research |-> "absent", context |-> "absent", spec |-> "absent",
     critique |-> "absent", plan |-> "absent"]

\* Path.exists()
Exists(d, f) == IF f = "assess" THEN d.assess.st # "absent" ELSE d[f] # "absent"

\* the file is there, cut off before the end of its content
IsPartial(d, f) == IF f = "assess" THEN d.assess.st = "partial" ELSE d[f] = "partial"

\* an open(f, "w") that took the file away until the dump is done
TruncatedAway(f) == IF f = "assess" THEN AssessAbsent ELSE "absent"

\* what open(f, "w") leaves until json.dump has written everything
Truncated(f) == IF f = "assess" THEN AssessPartial ELSE "partial"

\* json.load succeeds
ParsesAsJson(d, f) ==
    IF f = "assess" THEN d.assess.st = "ok" ELSE d[f] \notin {"absent", "partial", "malformed"}

\* PhaseResult(phase, success, output_files, errors, retries); errors by their number
PhaseResult(phase, success, errors, retries) ==
    [phase |-> phase, success |-> success, errors |-> errors, retries |-> retries]

NoResult == PhaseResult("", TRUE, 0, 0)

NoWrite == [file |-> "", content |-> "", then |-> "", result |-> NoResult]

\* SpecOrchestrator.__init__: complexity_override, use_ai_assessment
Configs ==
    [override : Tiers, use_ai : {TRUE}] \cup [override : {"none"}, use_ai : BOOLEAN]

\* the task whose heuristic tier is standard
StandardTask == CHOOSE t \in Tasks : calculate_complexity(t)[1] = "standard"

-----------------------------------------------------------------------------
(* The external collaborators: what the agent or a script may leave behind *)

\* an outcome of an agent session or of a helper script: its return flag and the
\* directory it leaves
Outcome(ok, d) == [ok |-> ok, fs |-> d]

\* complexity_assessment.json as the complexity_assessor agent writes it
NominalAssessFiles ==
    { AssessFile("ok", "agent", "complex", <<>>, TRUE, TRUE, 80, "AI"),
      AssessFile("ok", "agent", "standard", <<>>, TRUE, FALSE, 80, "AI"),
      AssessFile("ok", "agent", "simple", <<>>, FALSE, FALSE, 80, "AI"),
      AssessFile("ok", "agent", "standard",
                 <<"discovery", "requirements", "context", "spec_writing",
                   "deploy_check", "planning">>, FALSE, FALSE, 80, "AI") }

\* complexity_assessment.json with a tier Complexity() does not know, or no JSON
BrokenAssessFiles ==
    { AssessFile("ok", "agent", "epic", <<>>, FALSE, FALSE, 80, "AI"), AssessMalformed }

\* the outcomes of an agent session that does what its prompt asks
NominalAgent(phase, d) ==
    CASE phase = "complexity_assessment" ->
            {Outcome(TRUE, [d EXCEPT !.assess = a]) : a \in NominalAssessFiles}
      [] phase = "quick_spec" -> {Outcome(TRUE, [d EXCEPT !.spec = "valid", !.plan = "valid"])}
      [] phase = "research" -> {Outcome(TRUE, [d EXCEPT !.research = "agent"])}
      [] phase = "spec_writing" -> {Outcome(TRUE, [d EXCEPT !.spec = "valid"])}
      [] phase = "self_critique" -> {Outcome(TRUE, [d EXCEPT !.critique = "fixed"])}
      [] phase = "planning" -> {Outcome(TRUE, [d EXCEPT !.plan = "valid"])}
      [] phase = "validation" ->
            {Outcome(TRUE, [d EXCEPT !.spec = "valid", !.plan = "valid"]), Outcome(FALSE, d)}
      [] OTHER -> {}

\* every outcome of an agent session of the phase
AgentOutcomes(phase, d) ==
    NominalAgent(phase, d) \cup {Outcome(TRUE, d), Outcome(FALSE, d)} \cup
    CASE phase = "complexity_assessment" ->
            {Outcome(TRUE, [d EXCEPT !.assess = a]) : a \in BrokenAssessFiles}
            \cup {Outcome(FALSE, [d EXCEPT !.assess = a]) : a \in NominalAssessFiles}
      [] phase = "quick_spec" ->
            {Outcome(TRUE, [d EXCEPT !.spec = "valid"]),
             Outcome(TRUE, [d EXCEPT !.spec = "invalid"]),
             Outcome(TRUE, [d EXCEPT !.spec = "valid", !.plan = "invalid"])}
      [] phase = "research" -> {Outcome(FALSE, [d EXCEPT !.research = "agent"])}
      [] phase = "spec_writing" ->
            {Outcome(TRUE, [d EXCEPT !.spec = "invalid"]),
             Outcome(FALSE, [d EXCEPT !.spec = "valid"])}
      [] phase = "self_critique" ->
            {Outcome(TRUE, [d EXCEPT !.critique = "open"]),
             Outcome(TRUE, [d EXCEPT !.spec = "invalid"]),
             Outcome(TRUE, [d EXCEPT !.critique = "fixed", !.spec = "invalid"]),
             Outcome(FALSE, [d EXCEPT !.critique = "fixed"])}
      [] phase = "planning" ->
            {Outcome(TRUE, [d EXCEPT !.plan = p]) : p \in {"invalid", "fixable", "patchable"}}
      [] OTHER -> {}

\* the outcome of a helper script that does its work
NominalScript(phase, d) ==
    CASE phase = "discovery" -> {Outcome(TRUE, [d EXCEPT !.index = "ok"])}
      [] phase = "context" -> {Outcome(TRUE, [d EXCEPT !.context = "ok"])}
      [] phase = "planning" -> {Outcome(TRUE, [d EXCEPT !.plan = "valid"])}
      [] OTHER -> {}

\* every outcome of a run of the phase's helper script
ScriptOutcomes(phase, d) ==
    NominalScript(phase, d) \cup {Outcome(TRUE, d), Outcome(FALSE, d)} \cup
    CASE phase = "context" ->
            {Outcome(TRUE, [d EXCEPT !.context = c]) : c \in {"nokey", "malformed"}}
      [] phase = "planning" ->
            {Outcome(TRUE, [d EXCEPT !.plan = p]) : p \in {"invalid", "fixable", "patchable"}}
      [] OTHER -> {}

\* the outcome is within what the history may still contain
MayHappen(o, nominal) ==
    o \in nominal \/ pc \in faulty \/ Cardinality(faulty) < MaxFaultyPhases

\* the phases that have seen a misbehaving agent or script once the outcome is in
FaultyAfter(o, nominal) == IF o \in nominal THEN faulty ELSE faulty \cup {pc}

-----------------------------------------------------------------------------
(* run(): control between the phases                                       *)

\* auto-build/project_index.json, a file outside the task directory that other
\* tools write: what a read of it may find
AutoIndexStates == {"absent", "ok", "malformed"}

EndStates == {"idle", "done", "failed", "interrupted", "crashed"}

\* a run() that starts whatever name the plan holds
DispatchUnknown ==
    /\ pc = "dispatch"
    /\ IF todo = <<>>
       THEN /\ pc' = "done"
            /\ UNCHANGED <<todo, executed, entry, agentCalls, scriptCalls>>
       ELSE /\ pc' = IF Head(todo) \in all_phases THEN Head(todo) ELSE "dispatch"
            /\ todo' = Tail(todo)
            /\ executed' = Append(executed, Head(todo))
            /\ entry' = fs
            /\ agentCalls' = 0
            /\ scriptCalls' = 0
    /\ UNCHANGED <<fs, step, attempt, nerr, ret, assessment, lastResult, pendingWrite>>
    /\ UNCHANGED <<task, aside, cfg, completedBefore, runs, faulty, prevEnd>>

\* a run() that went on whatever the phase returned
NextPcIgnoringFailure(phase, success) ==
    IF phase = "discovery" THEN "requirements"
    ELSE IF phase = "requirements" THEN "rename"
    ELSE "dispatch"

\* run(): the statement after a phase's return
NextPc(phase, success) ==
    IF ~success THEN "failed"
    ELSE IF phase = "discovery" THEN "requirements"
    ELSE IF phase = "requirements" THEN "rename"
    ELSE "dispatch"

\* `return PhaseResult(...)` of a phase and run()'s reaction to it
Return(res) ==
    /\ lastResult' = res
    /\ pc' = NextPc(res.phase, res.success)
    /\ step' = "enter"
    /\ attempt' = 0
    /\ nerr' = 0
    /\ ret' = FALSE
    /\ todo' = IF res.phase = "complexity_assessment" /\ res.success
               THEN RemainingPhases(assessment') ELSE todo
    /\ executed' = IF NextPc(res.phase, res.success) = "requirements"
                   THEN Append(executed, "requirements") ELSE executed
    /\ entry' = IF NextPc(res.phase, res.success) = "requirements" THEN fs' ELSE entry
    /\ agentCalls' = IF NextPc(res.phase, res.success) = "requirements" THEN 0 ELSE agentCalls
    /\ scriptCalls' = IF NextPc(res.phase, res.success) = "requirements" THEN 0 ELSE scriptCalls

\* with open(file, "w") as f: json.dump(content, f), and what the phase does next
WriteThen(file, content, then, res) ==
    /\ fs' = [fs EXCEPT ![file] = Truncated(file)]
    /\ pendingWrite' = [file |-> file, content |-> content, then |-> then, result |-> res]
    /\ step' = "writing"

\* json.dump finishes; the phase goes on, or returns
CompleteWrite ==
    /\ pc \notin EndStates
    /\ step = "writing"
    /\ fs' = [fs EXCEPT ![pendingWrite.file] = pendingWrite.content]
    /\ pendingWrite' = NoWrite
    /\ UNCHANGED <<task, aside, cfg, assessment, completedBefore, runs, faulty, prevEnd>>
    /\ IF pendingWrite.then \in {"return", "return_in_try"}
       THEN Return(pendingWrite.result)
       ELSE /\ step' = pendingWrite.then
            /\ UNCHANGED <<pc, attempt, nerr, ret, todo, lastResult, executed, entry,
                           agentCalls, scriptCalls>>

\* phases of this run that have returned success
CompletedNow ==
    IF pc \in {"discovery", "requirements", "complexity_assessment", "failed", "crashed"}
             \cup all_phases
    THEN Range(SubSeq(executed, 1, Len(executed) - 1))
    ELSE Range(executed)

\* main(): SpecOrchestrator(...) on the task directory, then run()
Start ==
    /\ pc \in EndStates
    /\ runs < MaxRuns
    /\ runs' = runs + 1
    /\ pc' = "discovery"
    /\ step' = "enter"
    /\ attempt' = 0
    /\ nerr' = 0
    /\ ret' = FALSE
    /\ assessment' = NoAssessment
    /\ todo' = <<>>
    /\ lastResult' = NoResult
    /\ executed' = <<"discovery">>
    /\ agentCalls' = 0
    /\ scriptCalls' = 0
    /\ pendingWrite' = NoWrite
    /\ completedBefore' = completedBefore \cup CompletedNow
    /\ entry' = fs
    /\ prevEnd' = pc
    /\ UNCHANGED <<fs, task, aside, cfg, faulty>>

\* KeyboardInterrupt, caught in main(): the process exits with code 1 and
\* nothing but the directory is left of the run
Interrupt ==
    /\ pc \notin EndStates
    /\ pc' = "interrupted"
    /\ step' = "enter"
    /\ attempt' = 0
    /\ nerr' = 0
    /\ ret' = FALSE
    /\ assessment' = NoAssessment
    /\ todo' = <<>>
    /\ lastResult' = NoResult
    /\ executed' = <<>>
    /\ agentCalls' = 0
    /\ scriptCalls' = 0
    /\ pendingWrite' = NoWrite
    /\ completedBefore' = completedBefore \cup CompletedNow
    /\ entry' = EmptyDir
    /\ UNCHANGED <<fs, task, aside, cfg, runs, faulty, prevEnd>>

\* _run_agent: one agent session for the phase that waits for it
run_agent ==
    /\ pc \notin EndStates
    /\ step = "agent"
    /\ \E o \in AgentOutcomes(pc, fs) :
          /\ MayHappen(o, NominalAgent(pc, fs))
          /\ ret' = o.ok
          /\ fs' = o.fs
          /\ faulty' = FaultyAfter(o, NominalAgent(pc, fs))
    /\ agentCalls' = agentCalls + 1
    /\ step' = "check"
    /\ UNCHANGED <<task, aside, cfg, pc, attempt, nerr, assessment, todo, lastResult,
                   executed, entry, scriptCalls, pendingWrite, completedBefore, runs, prevEnd>>

\* _run_script: one run of the helper script the phase waits for
run_script ==
    /\ pc \notin EndStates
    /\ step = "script"
    /\ \E o \in ScriptOutcomes(pc, fs) :
          /\ MayHappen(o, NominalScript(pc, fs))
          /\ ret' = o.ok
          /\ fs' = o.fs
          /\ faulty' = FaultyAfter(o, NominalScript(pc, fs))
    /\ scriptCalls' = scriptCalls + 1
    /\ step' = "checkscript"
    /\ UNCHANGED <<task, aside, cfg, pc, attempt, nerr, assessment, todo, lastResult,
                   executed, entry, agentCalls, pendingWrite, completedBefore, runs, prevEnd>>

env == <<task, aside, cfg, completedBefore, runs, faulty, prevEnd>>

\* an exception no handler of run() or main() catches: traceback, exit code 1
Raise ==
    /\ pc' = "crashed"
    /\ UNCHANGED <<fs, step, attempt, nerr, ret, todo, lastResult, executed, entry,
                   agentCalls, scriptCalls, pendingWrite>>

\* return without touching the directory
ReturnOnly(res) == UNCHANGED <<fs, pendingWrite>> /\ Return(res)

\* write the artifact, then return
WriteReturn(file, content, res) ==
    /\ WriteThen(file, content, "return", res)
    /\ UNCHANGED <<pc, attempt, nerr, ret, todo, lastResult, executed, entry,
                   agentCalls, scriptCalls>>

\* go on inside the phase function
Goto(s) ==
    /\ step' = s
    /\ UNCHANGED <<fs, pc, attempt, nerr, ret, todo, lastResult, executed, entry,
                   agentCalls, scriptCalls, pendingWrite>>

\* a loop with one more iteration than MAX_RETRIES
RetryOnceMore(again) ==
    /\ attempt' = attempt + 1
    /\ nerr' = nerr + 1
    /\ step' = IF attempt + 1 < MAX_RETRIES + 1 THEN again ELSE "exhaust"
    /\ UNCHANGED <<fs, pc, ret, todo, lastResult, executed, entry, agentCalls,
                   scriptCalls, pendingWrite>>

\* errors.append(...) and the next iteration of `for attempt in range(MAX_RETRIES)`
Retry(again) ==
    /\ attempt' = attempt + 1
    /\ nerr' = nerr + 1
    /\ step' = IF attempt + 1 < MAX_RETRIES THEN again ELSE "exhaust"
    /\ UNCHANGED <<fs, pc, ret, todo, lastResult, executed, entry, agentCalls,
                   scriptCalls, pendingWrite>>

\* run(): for phase_name in phases_to_run, unknown names skipped
Dispatch ==
    /\ pc = "dispatch"
    /\ IF todo = <<>>
       THEN /\ pc' = "done"
            /\ UNCHANGED <<todo, executed, entry, agentCalls, scriptCalls>>
       ELSE IF Head(todo) \notin all_phases
       THEN /\ todo' = Tail(todo)
            /\ UNCHANGED <<pc, executed, entry, agentCalls, scriptCalls>>
       ELSE /\ pc' = Head(todo)
            /\ todo' = Tail(todo)
            /\ executed' = Append(executed, Head(todo))
            /\ entry' = fs
            /\ agentCalls' = 0
            /\ scriptCalls' = 0
    /\ UNCHANGED <<fs, step, attempt, nerr, ret, assessment, lastResult, pendingWrite>>
    /\ UNCHANGED env

-----------------------------------------------------------------------------
(* The three leading phases                                                *)

\* phase_discovery: top of one iteration of the loop, and the return after it
phase_discovery ==
    /\ pc = "discovery"
    /\ step = "enter"
    /\ IF attempt >= MAX_RETRIES
       THEN ReturnOnly(PhaseResult("discovery", FALSE, nerr, attempt - 1))
       ELSE IF Exists(fs, "index")
       THEN ReturnOnly(PhaseResult("discovery", TRUE, 0, 0))
       ELSE \E autoIndex \in AutoIndexStates :
              IF autoIndex # "absent"
              THEN WriteReturn("index", "ok", PhaseResult("discovery", TRUE, 0, 0))
              ELSE Goto("script")
    /\ UNCHANGED assessment
    /\ UNCHANGED env

\* phase_discovery: after analyzer.py
phase_discovery_check ==
    /\ pc = "discovery"
    /\ step = "checkscript"
    /\ IF ret /\ Exists(fs, "index")
       THEN ReturnOnly(PhaseResult("discovery", TRUE, 0, attempt))
       ELSE /\ attempt' = attempt + 1
            /\ nerr' = nerr + 1
            /\ step' = "enter"
            /\ UNCHANGED <<fs, pc, ret, todo, lastResult, executed, entry, agentCalls,
                           scriptCalls, pendingWrite>>
    /\ UNCHANGED assessment
    /\ UNCHANGED env

\* phase_requirements: requirements.json exists, or is written from the task
\* description (not interactive) or from the answers typed in (interactive)
phase_requirements ==
    /\ pc = "requirements"
    /\ step = "enter"
    /\ IF Exists(fs, "req")
       THEN /\ UNCHANGED assessment
            /\ ReturnOnly(PhaseResult("requirements", TRUE, 0, 0))
       ELSE \E interactive \in BOOLEAN :
              /\ assessment' = IF interactive THEN analyze(task) ELSE assessment
              /\ WriteThen("req", "ok", IF interactive THEN "return_in_try" ELSE "return",
                           PhaseResult("requirements", TRUE, 0, 0))
              /\ UNCHANGED <<pc, attempt, nerr, ret, todo, lastResult, executed, entry,
                             agentCalls, scriptCalls>>
    /\ UNCHANGED env

\* phase_requirements: KeyboardInterrupt or EOFError at a prompt
phase_requirements_cancel ==
    /\ pc = "requirements"
    /\ step = "enter"
    /\ ~Exists(fs, "req")
    /\ UNCHANGED assessment
    /\ ReturnOnly(PhaseResult("requirements", FALSE, 1, 0))
    /\ UNCHANGED env

\* phase_requirements: KeyboardInterrupt inside the try block while
\* requirements.json is being dumped
phase_requirements_cancel_write ==
    /\ pc = "requirements"
    /\ step = "writing"
    /\ pendingWrite.then = "return_in_try"
    /\ pendingWrite' = NoWrite
    /\ UNCHANGED <<fs, assessment>>
    /\ Return(PhaseResult("requirements", FALSE, 1, 0))
    /\ UNCHANGED env

\* _rename_spec_dir_from_requirements, then run() starts the third phase
rename_spec_dir ==
    /\ pc = "rename"
    /\ pc' = "complexity_assessment"
    /\ executed' = Append(executed, "complexity_assessment")
    /\ entry' = fs
    /\ agentCalls' = 0
    /\ scriptCalls' = 0
    /\ UNCHANGED <<fs, step, attempt, nerr, ret, assessment, todo, lastResult, pendingWrite>>
    /\ UNCHANGED env

\* complexity_assessment.json as phase_complexity_assessment_with_requirements dumps it
OrchAssessFile(a) ==
    AssessFile("ok", "orch", a.complexity, phases_to_run(a), a.needs_research,
               a.needs_self_critique, a.confidence, a.reasoning)

\* _run_ai_complexity_assessment: the ComplexityAssessment parsed from the file
\* (recommended_phases and flags are keys only the agent writes)
ParseAssessment(f) ==
    [complexity |-> f.complexity, confidence |-> f.conf, reasoning |-> f.reasoning,
     recommended_phases |-> IF f.by = "agent" THEN f.phases ELSE <<>>,
     needs_research |-> f.by = "agent" /\ f.nr,
     needs_self_critique |-> f.by = "agent" /\ f.nsc]

\* _run_ai_complexity_assessment returns an assessment, not None
AiAssessmentParsed(ok, d) ==
    ok /\ Exists(d, "assess") /\ ParsesAsJson(d, "assess") /\ d.assess.complexity \in Tiers

\* phase_complexity_assessment_with_requirements: save unless the file exists, return
SaveAssessment ==
    IF ~Exists(fs, "assess")
    THEN WriteReturn("assess", OrchAssessFile(assessment'),
                     PhaseResult("complexity_assessment", TRUE, 0, 0))
    ELSE ReturnOnly(PhaseResult("complexity_assessment", TRUE, 0, 0))

\* _heuristic_assessment: json.load of auto-build/project_index.json, then analyze
heuristic_assessment ==
    \E autoIndex \in AutoIndexStates :
       IF autoIndex = "malformed"
       THEN Raise /\ UNCHANGED assessment
       ELSE assessment' = analyze(task) /\ SaveAssessment

\* phase_complexity_assessment_with_requirements, up to the agent call
phase_complexity_assessment ==
    /\ pc = "complexity_assessment"
    /\ step = "enter"
    /\ IF Exists(fs, "req") /\ ~ParsesAsJson(fs, "req")
       THEN Raise /\ UNCHANGED assessment
       ELSE IF cfg.override # "none"
       THEN assessment' = OverrideAssessment(cfg.override) /\ SaveAssessment
       ELSE IF cfg.use_ai
       THEN Goto("agent") /\ UNCHANGED assessment
       ELSE heuristic_assessment
    /\ UNCHANGED env

\* phase_complexity_assessment_with_requirements, after the agent call
phase_complexity_assessment_check ==
    /\ pc = "complexity_assessment"
    /\ step = "check"
    /\ IF AiAssessmentParsed(ret, fs)
       THEN assessment' = ParseAssessment(fs.assess) /\ SaveAssessment
       ELSE heuristic_assessment
    /\ UNCHANGED env

-----------------------------------------------------------------------------
(* The validator (validate_spec.py)                                        *)

\* SpecValidator.validate_spec_document().valid
ValidSpec(d) == d.spec = "valid"

\* SpecValidator.validate_implementation_plan().valid
ValidPlan(d) == d.plan \in {"valid", "minimal", "fixed"}

\* all(r.valid for r in SpecValidator.validate_all())
AllValid(d) == ValidSpec(d) /\ ValidPlan(d)

\* auto_fix_plan: whether it changed the plan. A fixable plan lacks only what
\* the routine fills in; a patchable plan lacks more than that
AutoFixes(d) == d.plan \in {"fixable", "patchable"}

\* auto_fix_plan: the plan it leaves
AutoFixed(d) ==
    IF d.plan = "fixable" THEN [d EXCEPT !.plan = "fixed"]
    ELSE IF d.plan = "patchable" THEN [d EXCEPT !.plan = "patched"]
    ELSE d

-----------------------------------------------------------------------------
(* The phases of the assessed list                                         *)

\* phase_quick_spec, up to the first agent call
phase_quick_spec ==
    /\ pc = "quick_spec"
    /\ step = "enter"
    /\ IF Exists(fs, "spec") /\ Exists(fs, "plan")
       THEN ReturnOnly(PhaseResult("quick_spec", TRUE, 0, 0))
       ELSE Goto("agent")
    /\ UNCHANGED assessment
    /\ UNCHANGED env

\* a phase_quick_spec that leaves the plan to the agent
phase_quick_spec_check_as_is ==
    /\ pc = "quick_spec"
    /\ step = "check"
    /\ IF ret /\ Exists(fs, "spec")
       THEN ReturnOnly(PhaseResult("quick_spec", TRUE, 0, attempt))
       ELSE Retry("agent")
    /\ UNCHANGED assessment
    /\ UNCHANGED env

\* phase_quick_spec, after an agent call; _create_minimal_plan if there is no plan
phase_quick_spec_check ==
    /\ pc = "quick_spec"
    /\ step = "check"
    /\ IF ret /\ Exists(fs, "spec")
       THEN IF ~Exists(fs, "plan")
            THEN WriteReturn("plan", "minimal", PhaseResult("quick_spec", TRUE, 0, attempt))
            ELSE ReturnOnly(PhaseResult("quick_spec", TRUE, 0, attempt))
       ELSE Retry("agent")
    /\ UNCHANGED assessment
    /\ UNCHANGED env

\* phase_quick_spec, after the loop
phase_quick_spec_exhaust ==
    /\ pc = "quick_spec"
    /\ step = "exhaust"
    /\ ReturnOnly(PhaseResult("quick_spec", FALSE, nerr, MAX_RETRIES))
    /\ UNCHANGED assessment
    /\ UNCHANGED env

\* phase_research, up to the first agent call
phase_research ==
    /\ pc = "research"
    /\ step = "enter"
    /\ IF Exists(fs, "research")
       THEN ReturnOnly(PhaseResult("research", TRUE, 0, 0))
       ELSE IF ~Exists(fs, "req")
       THEN WriteReturn("research", "skipped", PhaseResult("research", TRUE, 0, 0))
       ELSE Goto("agent")
    /\ UNCHANGED assessment
    /\ UNCHANGED env

\* phase_research, after an agent call
phase_research_check ==
    /\ pc = "research"
    /\ step = "check"
    /\ IF ret /\ Exists(fs, "research")
       THEN ReturnOnly(PhaseResult("research", TRUE, 0, attempt))
       ELSE IF ret
       THEN WriteReturn("research", "completed", PhaseResult("research", TRUE, 0, attempt))
       ELSE Retry("agent")
    /\ UNCHANGED assessment
    /\ UNCHANGED env

\* the artifact phase_research writes when the loop is exhausted
ResearchPlaceholder == "failed"

\* a research phase that gave up like a critical phase
ResearchExhaustedFailure == FALSE

\* the PhaseResult.success phase_research returns when the loop is exhausted
ResearchExhaustedSuccess == TRUE

\* phase_research, after the loop
phase_research_exhaust ==
    /\ pc = "research"
    /\ step = "exhaust"
    /\ WriteReturn("research", ResearchPlaceholder,
                   PhaseResult("research", ResearchExhaustedSuccess, nerr, MAX_RETRIES))
    /\ UNCHANGED assessment
    /\ UNCHANGED env

\* phase_context, up to the first run of context.py
phase_context ==
    /\ pc = "context"
    /\ step = "enter"
    /\ IF Exists(fs, "context")
       THEN ReturnOnly(PhaseResult("context", TRUE, 0, 0))
       ELSE IF Exists(fs, "req") /\ ~ParsesAsJson(fs, "req")
       THEN Raise
       ELSE Goto("script")
    /\ UNCHANGED assessment
    /\ UNCHANGED env

\* phase_context, after a run of context.py: check, repair or unlink context.json
phase_context_check ==
    /\ pc = "context"
    /\ step = "checkscript"
    /\ IF ret /\ Exists(fs, "context")
       THEN IF ~ParsesAsJson(fs, "context")
            THEN /\ fs' = [fs EXCEPT !.context = "absent"]
                 /\ attempt' = attempt + 1
                 /\ nerr' = nerr + 1
                 /\ step' = IF attempt + 1 < MAX_RETRIES THEN "script" ELSE "exhaust"
                 /\ UNCHANGED <<pc, ret, todo, lastResult, executed, entry, agentCalls,
                                scriptCalls, pendingWrite>>
            ELSE IF fs.context = "nokey"
            THEN WriteReturn("context", "ok", PhaseResult("context", TRUE, 0, attempt))
            ELSE ReturnOnly(PhaseResult("context", TRUE, 0, attempt))
       ELSE Retry("script")
    /\ UNCHANGED assessment
    /\ UNCHANGED env

\* phase_context, after the loop
phase_context_exhaust ==
    /\ pc = "context"
    /\ step = "exhaust"
    /\ WriteReturn("context", "minimal", PhaseResult("context", TRUE, nerr, MAX_RETRIES))
    /\ UNCHANGED assessment
    /\ UNCHANGED env

\* phase_spec_writing, up to the first agent call
phase_spec_writing ==
    /\ pc = "spec_writing"
    /\ step = "enter"
    /\ IF Exists(fs, "spec") /\ ValidSpec(fs)
       THEN ReturnOnly(PhaseResult("spec_writing", TRUE, 0, 0))
       ELSE Goto("agent")
    /\ UNCHANGED assessment
    /\ UNCHANGED env

\* phase_spec_writing, after an agent call
phase_spec_writing_check ==
    /\ pc = "spec_writing"
    /\ step = "check"
    /\ IF ret /\ Exists(fs, "spec") /\ ValidSpec(fs)
       THEN ReturnOnly(PhaseResult("spec_writing", TRUE, 0, attempt))
       ELSE Retry("agent")
    /\ UNCHANGED assessment
    /\ UNCHANGED env

\* a spec_writing phase that degraded like research
SpecWritingExhaustedDegrades == TRUE

\* the PhaseResult.success phase_spec_writing returns when the loop is exhausted
SpecWritingExhaustedSuccess == FALSE

\* phase_spec_writing, after the loop
phase_spec_writing_exhaust ==
    /\ pc = "spec_writing"
    /\ step = "exhaust"
    /\ ReturnOnly(PhaseResult("spec_writing", SpecWritingExhaustedSuccess, nerr, MAX_RETRIES))
    /\ UNCHANGED assessment
    /\ UNCHANGED env

\* phase_self_critique: critique.get("issues_fixed") or critique.get("no_issues_found")
CritiqueDone(d) == d.critique \in {"fixed", "noissues"}

\* phase_self_critique, up to the first agent call
phase_self_critique ==
    /\ pc = "self_critique"
    /\ step = "enter"
    /\ IF ~Exists(fs, "spec")
       THEN ReturnOnly(PhaseResult("self_critique", FALSE, 1, 0))
       ELSE IF Exists(fs, "critique") /\ ~ParsesAsJson(fs, "critique")
       THEN Raise
       ELSE IF Exists(fs, "critique") /\ CritiqueDone(fs)
       THEN ReturnOnly(PhaseResult("self_critique", TRUE, 0, 0))
       ELSE Goto("agent")
    /\ UNCHANGED assessment
    /\ UNCHANGED env

\* phase_self_critique, after an agent call: the report is created if missing
phase_self_critique_check ==
    /\ pc = "self_critique"
    /\ step = "check"
    /\ IF ret
       THEN IF ~Exists(fs, "critique")
            THEN /\ WriteThen("critique", "noissues", "validate", NoResult)
                 /\ UNCHANGED <<pc, attempt, nerr, ret, todo, lastResult, executed, entry,
                                agentCalls, scriptCalls>>
            ELSE Goto("validate")
       ELSE Retry("agent")
    /\ UNCHANGED assessment
    /\ UNCHANGED env

\* phase_self_critique: re-validate spec.md after the critique
phase_self_critique_validate ==
    /\ pc = "self_critique"
    /\ step = "validate"
    /\ IF ValidSpec(fs)
       THEN ReturnOnly(PhaseResult("self_critique", TRUE, 0, attempt))
       ELSE Retry("agent")
    /\ UNCHANGED assessment
    /\ UNCHANGED env

\* a placeholder that reads like a finished critique
CritiquePlaceholderUnmarked == "noissues"

\* the artifact phase_self_critique writes when the loop is exhausted
CritiquePlaceholder == "failed"

\* phase_self_critique, after the loop
phase_self_critique_exhaust ==
    /\ pc = "self_critique"
    /\ step = "exhaust"
    /\ WriteReturn("critique", CritiquePlaceholder,
                   PhaseResult("self_critique", TRUE, nerr, MAX_RETRIES))
    /\ UNCHANGED assessment
    /\ UNCHANGED env

\* phase_planning, up to the run of planner.py
phase_planning ==
    /\ pc = "planning"
    /\ step = "enter"
    /\ IF Exists(fs, "plan") /\ ValidPlan(fs)
       THEN ReturnOnly(PhaseResult("planning", TRUE, 0, 0))
       ELSE Goto("script")
    /\ UNCHANGED assessment
    /\ UNCHANGED env

\* a call of validate_implementation_plan or of auto_fix_plan and its answer
PlanCall(op, answer) == [op |-> op, answer |-> answer]

\* a check of the plan in which auto_fix_plan has the last word
PlanChecksFixOnly(ok, d) ==
    IF ~(ok /\ Exists(d, "plan")) THEN <<>>
    ELSE IF ValidPlan(d) THEN <<PlanCall("validate", TRUE)>>
    ELSE <<PlanCall("validate", FALSE), PlanCall("auto_fix", AutoFixes(d))>>

\* phase_planning after planner.py or the agent: the calls it makes on the plan,
\* in order
PlanChecks(ok, d) ==
    IF ~(ok /\ Exists(d, "plan")) THEN <<>>
    ELSE IF ValidPlan(d) THEN <<PlanCall("validate", TRUE)>>
    ELSE IF AutoFixes(d)
    THEN <<PlanCall("validate", FALSE), PlanCall("auto_fix", TRUE),
           PlanCall("validate", ValidPlan(AutoFixed(d)))>>
    ELSE <<PlanCall("validate", FALSE), PlanCall("auto_fix", FALSE)>>

\* phase_planning: `if result.valid` on the result of the last validation made
\* on the plan of this attempt
PlanAccepted(ok, d) ==
    LET calls == PlanChecks(ok, d)
        validations == SelectSeq(calls, LAMBDA c : c.op = "validate")
    IN  validations # <<>> /\ validations[Len(validations)].answer

\* phase_planning, after planner.py
phase_planning_script_check ==
    /\ pc = "planning"
    /\ step = "checkscript"
    /\ IF PlanAccepted(ret, fs)
       THEN /\ fs' = IF ValidPlan(fs) THEN fs ELSE AutoFixed(fs)
            /\ UNCHANGED pendingWrite
            /\ Return(PhaseResult("planning", TRUE, 0, 0))
       ELSE /\ fs' = IF ret /\ Exists(fs, "plan") THEN AutoFixed(fs) ELSE fs
            /\ nerr' = IF ret /\ Exists(fs, "plan") THEN nerr + 1 ELSE nerr
            /\ step' = "agent"
            /\ UNCHANGED <<pc, attempt, ret, todo, lastResult, executed, entry, agentCalls,
                           scriptCalls, pendingWrite>>
    /\ UNCHANGED assessment
    /\ UNCHANGED env

\* phase_planning, after an agent call
phase_planning_check ==
    /\ pc = "planning"
    /\ step = "check"
    /\ IF PlanAccepted(ret, fs)
       THEN /\ fs' = IF ValidPlan(fs) THEN fs ELSE AutoFixed(fs)
            /\ UNCHANGED pendingWrite
            /\ Return(PhaseResult("planning", TRUE, 0, attempt))
       ELSE /\ fs' = IF ret /\ Exists(fs, "plan") THEN AutoFixed(fs) ELSE fs
            /\ attempt' = attempt + 1
            /\ nerr' = nerr + 1
            /\ step' = IF attempt + 1 < MAX_RETRIES THEN "agent" ELSE "exhaust"
            /\ UNCHANGED <<pc, ret, todo, lastResult, executed, entry, agentCalls,
                           scriptCalls, pendingWrite>>
    /\ UNCHANGED assessment
    /\ UNCHANGED env

\* phase_planning, after the loop
phase_planning_exhaust ==
    /\ pc = "planning"
    /\ step = "exhaust"
    /\ ReturnOnly(PhaseResult("planning", FALSE, nerr, MAX_RETRIES))
    /\ UNCHANGED assessment
    /\ UNCHANGED env

\* a phase_validation that calls the fixer after every failed round
phase_validation_fix_always ==
    /\ pc = "validation"
    /\ step = "enter"
    /\ IF AllValid(fs)
       THEN ReturnOnly(PhaseResult("validation", TRUE, 0, attempt))
       ELSE IF attempt < MAX_RETRIES
       THEN Goto("agent")
       ELSE ReturnOnly(PhaseResult("validation", FALSE, 1, MAX_RETRIES))
    /\ UNCHANGED assessment
    /\ UNCHANGED env

\* phase_validation: one validate_all round, and the return after the last one
phase_validation ==
    /\ pc = "validation"
    /\ step = "enter"
    /\ IF AllValid(fs)
       THEN ReturnOnly(PhaseResult("validation", TRUE, 0, attempt))
       ELSE IF attempt < MAX_RETRIES - 1
       THEN Goto("agent")
       ELSE ReturnOnly(PhaseResult("validation", FALSE, 1, MAX_RETRIES))
    /\ UNCHANGED assessment
    /\ UNCHANGED env

\* phase_validation, after the validation_fixer agent
phase_validation_check ==
    /\ pc = "validation"
    /\ step = "check"
    /\ attempt' = attempt + 1
    /\ step' = "enter"
    /\ UNCHANGED <<fs, pc, nerr, ret, todo, lastResult, executed, entry, agentCalls,
                   scriptCalls, pendingWrite>>
    /\ UNCHANGED assessment
    /\ UNCHANGED env

-----------------------------------------------------------------------------
Init ==
    /\ fs = EmptyDir
    /\ cfg \in Configs
    /\ task \in IF cfg.override = "none" /\ ~cfg.use_ai THEN Tasks ELSE {StandardTask}
    /\ pc = "idle"
    /\ step = "enter"
    /\ attempt = 0
    /\ nerr = 0
    /\ ret = FALSE
    /\ assessment = NoAssessment
    /\ todo = <<>>
    /\ lastResult = NoResult
    /\ executed = <<>>
    /\ agentCalls = 0
    /\ scriptCalls = 0
    /\ pendingWrite = NoWrite
    /\ completedBefore = {}
    /\ runs = 0
    /\ faulty = {}
    /\ entry = EmptyDir
    /\ prevEnd = "idle"
    /\ description = <<>>
    /\ requirements = NoRequirements
    /\ project_index = NoIndex
    /\ specs_dir = <<>>
    /\ spec_dir = <<>>
    /\ starting = NoStarters
    /\ LibraryIdle

Next ==
    \/ Start
    \/ Interrupt
    \/ run_agent
    \/ run_script
    \/ CompleteWrite
    \/ Dispatch
    \/ phase_discovery
    \/ phase_discovery_check
    \/ phase_requirements
    \/ phase_requirements_cancel
    \/ phase_requirements_cancel_write
    \/ rename_spec_dir
    \/ phase_complexity_assessment
    \/ phase_complexity_assessment_check
    \/ phase_quick_spec
    \/ phase_quick_spec_check
    \/ phase_quick_spec_exhaust
    \/ phase_research
    \/ phase_research_check
    \/ phase_research_exhaust
    \/ phase_context
    \/ phase_context_check
    \/ phase_context_exhaust
    \/ phase_spec_writing
    \/ phase_spec_writing_check
    \/ phase_spec_writing_exhaust
    \/ phase_self_critique
    \/ phase_self_critique_check
    \/ phase_self_critique_validate
    \/ phase_self_critique_exhaust
    \/ phase_planning
    \/ phase_planning_script_check
    \/ phase_planning_check
    \/ phase_planning_exhaust
    \/ phase_validation
    \/ phase_validation_check

Spec == Init /\ [][Next]_vars

-----------------------------------------------------------------------------
(* Properties of the spec-creation pipeline                                *)

\* the phase that run() started last
LastExecuted == IF executed = <<>> THEN "" ELSE executed[Len(executed)]

\* the phase whose attempts were all used up has just returned
Exhausted(phase) == lastResult.phase = phase /\ lastResult.retries = MAX_RETRIES

\* run() stands between two phases with the next one fixed, or is inside it
ProceedsTo(phase) ==
    \/ pc = "dispatch" /\ todo # <<>> /\ Head(todo) = phase
    \/ pc = phase /\ LastExecuted = phase

\* C1: once a phase has returned success = false, run() has returned False and
\* the failing phase is the last one it started, for the leading phases and for
\* the phases of the assessed list alike
C1_StopsAtFirstFailure ==
    ~lastResult.success =>
        /\ pc = "failed"
        /\ LastExecuted = lastResult.phase
        /\ pendingWrite.file = ""

C1_Witness == pc = "failed" /\ ~lastResult.success /\ lastResult.phase \in all_phases

\* C2: when all three attempts of spec_writing have failed the phase returns
\* success = false, run() returns False, planning is not started, and a run on
\* a fresh directory leaves no implementation_plan.json
C2_SpecWritingExhaustionAborts ==
    Exhausted("spec_writing") =>
        /\ ~lastResult.success
        /\ pc = "failed"
        /\ "planning" \notin Range(executed)
        /\ (runs = 1 => ~Exists(fs, "plan"))

C2_Witness == Exhausted("spec_writing") /\ agentCalls = MAX_RETRIES /\ runs = 1

\* C3: when the agent has failed on all three attempts of research, research.json
\* holds the research_failed placeholder, the phase has returned success = true
\* and run() goes on with context
C3_ResearchExhaustionDegrades ==
    Exhausted("research") =>
        /\ lastResult.success
        /\ fs.research = "failed"
        /\ ProceedsTo("context")

C3_Witness == Exhausted("research") /\ lastResult.errors = MAX_RETRIES /\ pc = "context"

\* C4: when all three attempts of self_critique have failed, critique_report.json
\* holds the critique_failed placeholder, the phase has returned success = true
\* and run() goes on with planning
C4_CritiqueExhaustionDegrades ==
    Exhausted("self_critique") =>
        /\ lastResult.success
        /\ fs.critique = "failed"
        /\ ProceedsTo("planning")

C4_Witness == Exhausted("self_critique") /\ lastResult.errors = MAX_RETRIES /\ pc = "planning"

\* C5: in a run that follows an interrupted one, a phase that returned success
\* in the interrupted run calls neither the agent nor a script
C5_ResumeRepeatsNoCompletedPhase ==
    (prevEnd = "interrupted" /\ pc \in completedBefore) => agentCalls + scriptCalls = 0

\* the file a phase produces; validation produces none
Artifact(phase) ==
    CASE phase = "discovery" -> "index"
      [] phase = "requirements" -> "req"
      [] phase = "complexity_assessment" -> "assess"
      [] phase = "research" -> "research"
      [] phase = "context" -> "context"
      [] phase \in {"spec_writing", "quick_spec"} -> "spec"
      [] phase = "self_critique" -> "critique"
      [] phase = "planning" -> "plan"
      [] OTHER -> ""

\* C6: a phase of the spec pipeline that finds its artifact in the directory
\* makes no agent call and leaves the artifact as it found it
C6_PhaseIdempotentOnExistingArtifact ==
    (Artifact(pc) # "" /\ Exists(entry, Artifact(pc))) =>
        /\ agentCalls = 0
        /\ fs[Artifact(pc)] = entry[Artifact(pc)]

\* C7 as stated: one execution of a phase makes at most three generation attempts,
\* agent sessions and script runs counted together
C7_AtMostThreeAttemptsInAll == agentCalls + scriptCalls <= MAX_RETRIES

\* C7: one execution of a phase makes at most three agent sessions and at most
\* three script runs, four attempts in all at most (planning: planner.py once,
\* then the agent loop), and every attempt before the one about to start failed
C7_AttemptsBounded ==
    /\ agentCalls <= MAX_RETRIES
    /\ scriptCalls <= MAX_RETRIES
    /\ agentCalls + scriptCalls <= MAX_RETRIES + 1
    /\ (step = "agent" => agentCalls = attempt)
    /\ (step = "script" => scriptCalls = attempt)

C7_Witness == pc = "planning" /\ scriptCalls = 1 /\ agentCalls = MAX_RETRIES

\* C8: after an interrupt no file of the task directory is a truncated one
C8_InterruptLeavesNoPartialFile ==
    pc = "interrupted" => \A f \in Files : ~IsPartial(fs, f)

\* C9: once the agent has been consulted for the complexity assessment the
\* phase returns success: run() neither fails nor dies in it
C9_AgentFailureFallsBack ==
    (LastExecuted = "complexity_assessment" /\ agentCalls > 0) =>
        pc \notin {"failed", "crashed"}

\* the phases run() executes for an overridden tier
OverridePlan(tier) ==
    <<"discovery", "requirements", "complexity_assessment">> \o
    CASE tier = "simple" -> <<"quick_spec", "validation">>
      [] tier = "standard" -> <<"context", "spec_writing", "planning", "validation">>
      [] OTHER -> <<"research", "context", "spec_writing", "self_critique",
                    "planning", "validation">>

\* the complexity_assessment phase of this run has returned
Assessed == pc \in {"dispatch", "done"} \/ Len(executed) > 3

\* C10: with a complexity override the assessment has the overridden tier,
\* confidence 1.0 and reasoning "Manual override: <tier>", the phase calls no
\* agent, and the phases run are those of the overridden tier whatever was
\* assessed before
C10_OverrideWins ==
    cfg.override # "none" =>
        /\ (pc = "complexity_assessment" => agentCalls = 0)
        /\ Assessed =>
              /\ assessment.complexity = cfg.override
              /\ assessment.confidence = 100
              /\ assessment.reasoning = "Manual override: " \o cfg.override
              /\ executed \o todo = OverridePlan(cfg.override)

C10_Witness ==
    /\ cfg.override = "complex"
    /\ calculate_complexity(task)[1] = "standard"
    /\ pc = "self_critique"

-----------------------------------------------------------------------------
(* The classifier by itself: an assessment from the signals of a task, by  *)
(* the heuristic, by the agent or by the override, then its phase plan     *)

\* largest file estimate drawn
MaxFiles == 10

\* the signals _calculate_complexity is called with
SignalCombos ==
    [files : 1..MaxFiles, services : 1..MaxSignal, integrations : 0..MaxSignal,
     infra : BOOLEAN, simple_kw : 0..MaxSignal, complex_kw : 0..MaxSignal]

\* phase lists an agent may recommend
RecommendedLists ==
    { <<>>,
      <<"validation">>,
      <<"discovery", "quick_spec", "validation">>,
      <<"discovery", "requirements", "context", "spec_writing", "deploy_check",
        "planning">> }

\* complexity_assessment.json files the complexity_assessor agent may write
AgentAssessFiles ==
    { AssessFile("ok", "agent", t, l, nr, nsc, 80, "AI") :
        t \in Tiers, l \in RecommendedLists, nr \in BOOLEAN, nsc \in BOOLEAN }

\* the variables of the pipeline, which the classifier by itself leaves alone
pipeline == <<fs, pc, step, attempt, nerr, ret, lastResult, executed, agentCalls,
              scriptCalls, pendingWrite, completedBefore, runs, faulty, entry,
              prevEnd>>

\* no run of the pipeline has started
PipelineIdle ==
    /\ fs = EmptyDir
    /\ pc = "idle"
    /\ step = "enter"
    /\ attempt = 0
    /\ nerr = 0
    /\ ret = FALSE
    /\ lastResult = NoResult
    /\ executed = <<>>
    /\ agentCalls = 0
    /\ scriptCalls = 0
    /\ pendingWrite = NoWrite
    /\ completedBefore = {}
    /\ runs = 0
    /\ faulty = {}
    /\ entry = EmptyDir
    /\ prevEnd = "idle"

RuleInit ==
    /\ PipelineIdle
    /\ cfg \in Configs
    /\ task \in SignalCombos
    /\ assessment = NoAssessment
    /\ todo = <<>>
    /\ description = <<>>
    /\ requirements = NoRequirements
    /\ project_index = NoIndex
    /\ specs_dir = <<>>
    /\ spec_dir = <<>>
    /\ starting = NoStarters
    /\ LibraryIdle

\* ComplexityAnalyzer.analyze, from the signals on
Analyze ==
    /\ cfg.override = "none"
    /\ assessment = NoAssessment
    /\ assessment' = analyze(task)
    /\ UNCHANGED <<pipeline, task, cfg, todo, aside>>

\* _run_ai_complexity_assessment, when the agent's file parses
AiAssess ==
    /\ cfg.override = "none"
    /\ cfg.use_ai
    /\ assessment = NoAssessment
    /\ task \in Tasks
    /\ \E f \in AgentAssessFiles : assessment' = ParseAssessment(f)
    /\ UNCHANGED <<pipeline, task, cfg, todo, aside>>

\* the complexity_override branch of the complexity_assessment phase
Override ==
    /\ cfg.override # "none"
    /\ assessment = NoAssessment
    /\ task \in Tasks
    /\ assessment' = OverrideAssessment(cfg.override)
    /\ UNCHANGED <<pipeline, task, cfg, todo, aside>>

\* self.assessment.phases_to_run()
PhasesToRun ==
    /\ assessment # NoAssessment
    /\ todo = <<>>
    /\ todo' = phases_to_run(assessment)
    /\ UNCHANGED <<pipeline, task, cfg, assessment, aside>>

RuleNext ==
    \/ Analyze
    \/ AiAssess
    \/ Override
    \/ PhasesToRun

RuleSpec == RuleInit /\ [][RuleNext]_vars

\* the default phase list of a tier, written out
TierPlan(tier, needs_research) ==
    CASE tier = "simple" -> <<"discovery", "quick_spec", "validation">>
      [] tier = "standard" /\ needs_research ->
            <<"discovery", "requirements", "research", "context", "spec_writing",
              "planning", "validation">>
      [] tier = "standard" /\ ~needs_research ->
            <<"discovery", "requirements", "context", "spec_writing", "planning",
              "validation">>
      [] OTHER ->
            <<"discovery", "requirements", "research", "context", "spec_writing",
              "self_critique", "planning", "validation">>

\* C11: the phase plan of an assessment with a non-empty recommended list is
\* that list, unchanged, whatever the tier and the flags; the tier defaults are
\* used only when the list is empty
C11_ExplicitListWins ==
    todo # <<>> =>
        IF assessment.recommended_phases # <<>>
        THEN todo = assessment.recommended_phases
        ELSE todo = TierPlan(assessment.complexity, assessment.needs_research)

C11_Witness ==
    /\ todo = <<"validation">>
    /\ assessment.complexity = "complex"
    /\ assessment.needs_research
    /\ assessment.needs_self_critique

\* the heuristic's SIMPLE test
SimpleRule(sig) ==
    /\ sig.files <= 2
    /\ sig.services = 1
    /\ sig.integrations = 0
    /\ ~sig.infra
    /\ sig.simple_kw >= 1
    /\ sig.complex_kw = 0

\* the heuristic's COMPLEX test
ComplexRule(sig) ==
    \/ sig.integrations >= 2
    \/ sig.infra
    \/ sig.services >= 3
    \/ sig.files >= 10
    \/ sig.complex_kw >= 3

\* C14: for every combination of signals the heuristic returns SIMPLE with
\* confidence 0.9 iff the SIMPLE test holds, otherwise COMPLEX with 0.85 iff the
\* COMPLEX test holds, otherwise STANDARD with 0.75
C14_DecisionRule ==
    assessment.reasoning = "heuristic" =>
        /\ (assessment.complexity = "simple" <=> SimpleRule(task))
        /\ (assessment.complexity = "complex" <=> ~SimpleRule(task) /\ ComplexRule(task))
        /\ (assessment.complexity = "standard" <=> ~SimpleRule(task) /\ ~ComplexRule(task))
        /\ assessment.confidence =
              CASE assessment.complexity = "simple" -> 90
                [] assessment.complexity = "complex" -> 85
                [] OTHER -> 75

C14_Witness ==
    /\ assessment.reasoning = "heuristic"
    /\ assessment.complexity = "complex"
    /\ task.complex_kw = 3
    /\ task.files = 2 /\ task.services = 1 /\ task.integrations = 0 /\ ~task.infra
    /\ task.simple_kw = 1

-----------------------------------------------------------------------------
(* The phase plan and the phases run() executes                            *)

\* the phases run() starts before it looks at the plan
LeadingPhases == <<"discovery", "requirements", "complexity_assessment">>

KnownPhases(s) == SelectSeqNotIn(s, Range(s) \ all_phases)

\* C13 as stated: the phases a completed run has executed after the assessment
\* are exactly the entries of the plan other than discovery and requirements
C13_ExecutesEveryEntry ==
    pc = "done" => executed = LeadingPhases \o RemainingPhases(assessment)

\* C13: once the complexity_assessment phase has returned, self.assessment is
\* the one that phase made (override, agent file or heuristic), whatever
\* phase_requirements had assessed, and the phases started after it are the
\* entries of its plan other than discovery, requirements and the names run()
\* does not know, each once and in list order
C13_SecondAssessmentDecides ==
    Assessed =>
        /\ IF cfg.override # "none"
           THEN assessment = OverrideAssessment(cfg.override)
           ELSE IF cfg.use_ai
           THEN assessment \in {analyze(task), ParseAssessment(fs.assess)}
           ELSE assessment = analyze(task)
        /\ executed \o KnownPhases(todo) =
              LeadingPhases \o KnownPhases(RemainingPhases(assessment))
        /\ (pc = "done" => todo = <<>>)

C13_Witness ==
    /\ pc = "done"
    /\ "deploy_check" \in Range(phases_to_run(assessment))
    /\ executed = LeadingPhases \o <<"context", "spec_writing", "planning">>

-----------------------------------------------------------------------------
(* The analyzer by itself: analyze() applied to task descriptions          *)

\* words of the task descriptions drawn
Vocabulary ==
    << <<"F", "i", "x">>,
       <<"t", "y", "p", "o">>,
       <<"i", "m", "p", "l", "e", "m", "e", "n", "t">>,
       <<"s", "d", "k">>,
       <<"l", "i", "b", "r", "a", "r", "y">>,
       <<"O", "A", "u", "t", "h">>,
       <<"R", "e", "d", "i", "s">>,
       <<"c", "a", "c", "h", "e">>,
       <<"d", "a", "t", "a", "b", "a", "s", "e">>,
       <<"m", "i", "g", "r", "a", "t", "i", "o", "n">>,
       <<"a", "p", "p", ".", "p", "y">>,
       <<"s", "i", "n", "g", "l", "e">>,
       <<"b", "a", "c", "k", "e", "n", "d">>,
       <<"x", ".", "t", "s", "x">> >>

\* most words of a description drawn from the vocabulary
MaxWords == 4

RECURSIVE Join(_, _)
\* the words of Vocabulary at the indices in S, in order, with single spaces
Join(S, from) ==
    IF S = {} THEN <<>>
    ELSE LET i == CHOOSE k \in S : \A m \in S : k <= m
         IN  (IF from THEN <<>> ELSE <<" ">>) \o Vocabulary[i] \o Join(S \ {i}, FALSE)

\* the scenario task of the specification
ScenarioTask ==
    <<"A", "d", "d", " ", "O", "A", "u", "t", "h", " ", "l", "o", "g", "i",
      "n", " ", "w", "i", "t", "h", " ", "R", "e", "d", "i", "s", " ", "s",
      "e", "s", "s", "i", "o", "n", " ", "c", "a", "c", "h", "e", " ", "a",
      "n", "d", " ", "d", "a", "t", "a", "b", "a", "s", "e", " ", "m", "i",
      "g", "r", "a", "t", "i", "o", "n">>

\* task descriptions handed to analyze()
Descriptions ==
    { Join(S, TRUE) : S \in {S \in SUBSET (1..Len(Vocabulary)) : Cardinality(S) <= MaxWords} }
    \cup {ScenarioTask}

\* requirements dicts handed to analyze(): none, or one naming some services
RequirementsDrawn ==
    {NoRequirements} \cup [given : {TRUE}, services_involved : 0..MaxSignal]

\* project_index.json of a monorepo with two services
MonorepoIndex ==
    [project_type |-> "monorepo",
     services |-> { <<"B", "a", "c", "k", "e", "n", "d">>, <<"w", "e", "b">> }]

\* no analyze() call yet
NoSignals ==
    [files |-> 0, services |-> 0, integrations |-> 0, infra |-> FALSE,
     simple_kw |-> 0, complex_kw |-> 0]

AnalyzerInit ==
    /\ PipelineIdle
    /\ cfg = [override |-> "none", use_ai |-> FALSE]
    /\ description \in Descriptions
    /\ requirements = NoRequirements
    /\ project_index \in {NoIndex, MonorepoIndex}
    /\ specs_dir = <<>>
    /\ spec_dir = <<>>
    /\ starting = NoStarters
    /\ LibraryIdle
    /\ task = NoSignals
    /\ assessment = NoAssessment
    /\ todo = <<>>

\* ComplexityAnalyzer(project_index).analyze(task_description, requirements)
AnalyzeDescription ==
    /\ assessment = NoAssessment
    /\ task' = Signals(description, project_index)
    /\ \E req \in RequirementsDrawn :
          /\ requirements' = req
          /\ assessment' = analyze(WithRequirements(task', req))
    /\ UNCHANGED <<pipeline, cfg, todo, description, project_index, naming,
                   results, library>>

AnalyzerNext ==
    \/ AnalyzeDescription
    \/ PhasesToRun

AnalyzerSpec == AnalyzerInit /\ [][AnalyzerNext]_vars

\* analyze() has returned
Analyzed == assessment # NoAssessment /\ task # NoSignals

SimpleDescription ==
    /\ task.simple_kw = 1
    /\ task.complex_kw = 0
    /\ task.integrations = 0
    /\ ~task.infra
    /\ task.files <= 2
    /\ task.services = 1

\* C16 as stated: a description with exactly one simple-signal keyword, no
\* complex-signal keyword, no integration, no infrastructure pattern, a file
\* estimate of at most 2 and a service estimate of 1 is classified SIMPLE with
\* confidence 0.9, whatever requirements object is passed
C16_SimpleWhateverRequirements ==
    (Analyzed /\ SimpleDescription) =>
        assessment.complexity = "simple" /\ assessment.confidence = 90

\* C16: such a description is classified SIMPLE with confidence 0.9 when no
\* requirements object is passed or the object names at most one service;
\* with two or more services named it is not SIMPLE
C16_SimpleUnlessMoreServices ==
    (Analyzed /\ SimpleDescription) =>
        IF requirements.given /\ requirements.services_involved >= 2
        THEN assessment.complexity # "simple"
        ELSE assessment.complexity = "simple" /\ assessment.confidence = 90

C16_Witness ==
    /\ Analyzed
    /\ SimpleDescription
    /\ requirements.given
    /\ requirements.services_involved = 1
    /\ assessment.complexity = "simple"

\* C17: for the scenario task the heuristic detects exactly 3 external
\* integrations and an infrastructure change, the tier is COMPLEX and the phase
\* list holds research and self_critique
C17_ScenarioTask ==
    (Analyzed /\ description = ScenarioTask) =>
        /\ task.integrations = 3
        /\ task.infra
        /\ assessment.complexity = "complex"
        /\ {"research", "self_critique"} \subseteq Range(phases_to_run(assessment))

\* the complexity_assessment phase of this run has just returned, and it had
\* found the assessment an earlier run computed and saved
Reassessed ==
    /\ pc = "dispatch"
    /\ LastExecuted = "complexity_assessment"
    /\ entry.assess.st = "ok"
    /\ entry.assess.by = "orch"

\* with the heuristic strategy alone, the run that computes the assessment
\* again gets the tier, the confidence and the phase list that were saved
HeuristicRecomputeSame ==
    (Reassessed /\ ~cfg.use_ai) =>
        /\ assessment.complexity = entry.assess.complexity
        /\ assessment.confidence = entry.assess.conf
        /\ phases_to_run(assessment) = entry.assess.phases

\* C18: a run that computes the assessment again, for the same description and
\* requirements, gets the tier the earlier run had computed and saved
C18_RecomputeSameTier ==
    Reassessed => assessment.complexity = entry.assess.complexity

-----------------------------------------------------------------------------
(* The name of the spec directory: __init__, requirements.json and the     *)
(* rename after requirements gathering, run after run in one specs         *)
(* directory.  A directory is known by its name; the record kept for it    *)
(* holds the task_description of its requirements.json and, as history,    *)
(* the name it was renamed from and how often it was renamed.              *)

\* _generate_spec_name: skip_words
skip_words ==
    { <<"a">>, <<"a", "d", "d">>, <<"a", "n">>, <<"a", "n", "d">>,
      <<"a", "r", "e">>, <<"a", "t">>, <<"b", "e">>, <<"b", "e", "e", "n">>,
      <<"b", "e", "i", "n", "g">>, <<"b", "u", "i", "l", "d">>,
      <<"b", "u", "t">>, <<"b", "y">>, <<"c", "a", "n">>,
      <<"c", "o", "u", "l", "d">>, <<"c", "r", "e", "a", "t", "e">>,
      <<"d", "i", "d">>, <<"d", "o">>, <<"d", "o", "e", "s">>,
      <<"f", "o", "r">>, <<"f", "r", "o", "m">>, <<"h", "a", "d">>,
      <<"h", "a", "s">>, <<"h", "a", "v", "e">>, <<"i">>,
      <<"i", "m", "p", "l", "e", "m", "e", "n", "t">>, <<"i", "n">>,
      <<"i", "s">>, <<"i", "t">>, <<"m", "a", "k", "e">>, <<"m", "a", "y">>,
      <<"m", "i", "g", "h", "t">>, <<"m", "u", "s", "t">>, <<"n", "e", "w">>,
      <<"o", "f">>, <<"o", "n">>, <<"o", "r">>,
      <<"s", "h", "o", "u", "l", "d">>, <<"t", "h", "a", "t">>,
      <<"t", "h", "e">>, <<"t", "h", "e", "s", "e">>, <<"t", "h", "e", "y">>,
      <<"t", "h", "i", "s">>, <<"t", "h", "o", "s", "e">>, <<"t", "o">>,
      <<"u", "s", "e">>, <<"u", "s", "i", "n", "g">>, <<"v", "i", "a">>,
      <<"w", "a", "s">>, <<"w", "e">>, <<"w", "e", "r", "e">>,
      <<"w", "i", "l", "l">>, <<"w", "i", "t", "h">>,
      <<"w", "o", "u", "l", "d">>, <<"y", "o", "u">> }

\* the placeholder name of _create_spec_dir
pending == <<"p", "e", "n", "d", "i", "n", "g">>

\* c.isalnum()
AlnumChars == WordChars \ {"_"}

RECURSIVE SplitWords(_, _)
\* text.split(), every character that is not alphanumeric taken for a space
SplitWords(t, word) ==
    IF t = <<>> THEN (IF word = <<>> THEN <<>> ELSE <<word>>)
    ELSE IF Head(t) \in AlnumChars
    THEN SplitWords(Tail(t), Append(word, Head(t)))
    ELSE (IF word = <<>> THEN <<>> ELSE <<word>>) \o SplitWords(Tail(t), <<>>)

\* s[:n]
Prefix(s, n) == SubSeq(s, 1, IF Len(s) < n THEN Len(s) ELSE n)

RECURSIVE JoinDash(_)
\* "-".join(name_parts)
JoinDash(parts) ==
    IF parts = <<>> THEN <<>>
    ELSE IF Len(parts) = 1 THEN parts[1]
    ELSE parts[1] \o <<"-">> \o JoinDash(Tail(parts))

\* w not in skip_words and len(w) > 2
Meaningful(w) == w \notin skip_words /\ Len(w) > 2

\* _generate_spec_name
generate_spec_name(task_description) ==
    LET words == SplitWords(lower(task_description), <<>>)
        meaningful == SelectSeq(words, Meaningful)
        name_parts == IF meaningful # <<>> THEN Prefix(meaningful, 4) ELSE Prefix(words, 4)
    IN  IF name_parts # <<>> THEN JoinDash(name_parts) ELSE <<"s", "p", "e", "c">>

\* str.isdigit() of a string
IsDigits(s) == s # <<>> /\ \A i \in 1..Len(s) : s[i] \in Digits

\* the digit characters, by value
DigitChar == <<"0", "1", "2", "3", "4", "5", "6", "7", "8", "9">>

\* f"{next_num:03d}-pending", for next_num below 1000
PlaceholderName(next_num) ==
    << DigitChar[((next_num \div 100) % 10) + 1], DigitChar[((next_num \div 10) % 10) + 1],
       DigitChar[(next_num % 10) + 1], "-" >> \o pending

\* _create_spec_dir: the name after those that match [0-9][0-9][0-9]-*
create_spec_dir(dirs) ==
    PlaceholderName(
        Cardinality({n \in DOMAIN dirs : Len(n) >= 4 /\ IsDigits(Prefix(n, 3)) /\ n[4] = "-"}) + 1)

\* a directory as mkdir leaves it, and no requirements.json
NewDir == [req |-> <<>>, renamed_from |-> <<>>, renames |-> 0]

\* names a user may pass with --continue: none; a name of their own that does
\* not hold the placeholder word; one that does
UserNames ==
    { <<"u", "s", "e", "r", "-", "a", "u", "t", "h">>,
      <<"0", "0", "2", "-", "p", "e", "n", "d", "i", "n", "g", "-", "o", "r", "d", "e", "r", "s">> }

\* task descriptions passed with --task
NamingTasks ==
    { <<"F", "i", "x", " ", "t", "h", "e", " ", "l", "o", "g", "i", "n", " ", "b", "u", "t", "t", "o", "n">>,
      <<"E", "x", "p", "o", "r", "t", " ", "p", "e", "n", "d", "i", "n", "g", " ", "o", "r", "d", "e", "r", "s">>,
      <<"A", "d", "d", " ", "O", "A", "u", "t", "h", " ", "l", "o", "g", "i", "n", " ", "w", "i", "t", "h", " ", "R", "e", "d", "i", "s", " ", "s", "e", "s", "s", "i", "o", "n", " ", "c", "a", "c", "h", "e">> }

\* the variables the naming of the directory leaves alone
unnamed == <<starting, fs, task, cfg, step, attempt, nerr, ret, assessment, todo, lastResult,
             executed, agentCalls, scriptCalls, pendingWrite, completedBefore, faulty,
             entry, prevEnd, requirements, project_index, results, library>>

NamingInit ==
    /\ PipelineIdle
    /\ cfg = [override |-> "none", use_ai |-> FALSE]
    /\ task = NoSignals
    /\ assessment = NoAssessment
    /\ todo = <<>>
    /\ description = <<>>
    /\ requirements = NoRequirements
    /\ project_index = NoIndex
    /\ specs_dir = <<>>
    /\ spec_dir = <<>>
    /\ starting = NoStarters
    /\ LibraryIdle

\* main(): SpecOrchestrator.__init__ with --task and, maybe, --continue
Construct ==
    /\ pc \in EndStates
    /\ runs < MaxRuns
    /\ runs' = runs + 1
    /\ pc' = "requirements"
    /\ description' \in NamingTasks
    /\ \E spec_name \in {<<>>} \cup UserNames \cup DOMAIN specs_dir :
          /\ spec_dir' = IF spec_name # <<>> THEN spec_name ELSE create_spec_dir(specs_dir)
          /\ specs_dir' = IF spec_dir' \in DOMAIN specs_dir
                          THEN specs_dir
                          ELSE [n \in DOMAIN specs_dir \cup {spec_dir'} |->
                                  IF n = spec_dir' THEN NewDir ELSE specs_dir[n]]
    /\ UNCHANGED unnamed

\* run() up to the end of phase_requirements: requirements.json is written
\* from the task description unless it exists
GatherRequirements ==
    /\ pc = "requirements"
    /\ pc' = "rename"
    /\ specs_dir' = IF specs_dir[spec_dir].req # <<>>
                    THEN specs_dir
                    ELSE [specs_dir EXCEPT ![spec_dir].req = description]
    /\ UNCHANGED <<unnamed, runs, description, spec_dir>>

\* run(): discovery or requirements gathering fails, the run returns
Abandon ==
    /\ pc = "requirements"
    /\ pc' = "failed"
    /\ UNCHANGED <<unnamed, runs, description, naming>>

\* _rename_spec_dir_from_requirements: the directory is moved
Renames(d, dir, new_dir_name) ==
    Occurs(pending, dir) /\ new_dir_name \notin DOMAIN d

\* _rename_spec_dir_from_requirements, and the rest of run()
Rename ==
    /\ pc = "rename"
    /\ pc' = "done"
    /\ LET task_desc == specs_dir[spec_dir].req
           new_dir_name ==
               (IF IsDigits(Prefix(spec_dir, 3)) THEN Prefix(spec_dir, 4) ELSE <<>>)
               \o generate_spec_name(task_desc)
       IN  IF task_desc # <<>> /\ Renames(specs_dir, spec_dir, new_dir_name)
           THEN /\ specs_dir' =
                      [n \in (DOMAIN specs_dir \ {spec_dir}) \cup {new_dir_name} |->
                          IF n = new_dir_name
                          THEN [specs_dir[spec_dir] EXCEPT
                                   !.renamed_from = spec_dir, !.renames = @ + 1]
                          ELSE specs_dir[n]]
                /\ spec_dir' = new_dir_name
           ELSE UNCHANGED naming
    /\ UNCHANGED <<unnamed, runs, description>>

NamingNext ==
    \/ Construct
    \/ GatherRequirements
    \/ Abandon
    \/ Rename

NamingSpec == NamingInit /\ [][NamingNext]_vars

\* the name _create_spec_dir gives: three digits, a dash and "pending"
IsPlaceholder(name) ==
    /\ Len(name) = 4 + Len(pending)
    /\ IsDigits(Prefix(name, 3))
    /\ name[4] = "-"
    /\ SubSeq(name, 5, Len(name)) = pending

\* C19: a directory that was renamed had the placeholder name before, so a
\* directory that was given another name is never renamed, and no directory
\* is renamed more than once
C19_RenamesOnlyPlaceholder ==
    \A n \in DOMAIN specs_dir :
        /\ specs_dir[n].renames <= 1
        /\ specs_dir[n].renames > 0 => IsPlaceholder(specs_dir[n].renamed_from)

-----------------------------------------------------------------------------
(* What counts as a successful attempt                                     *)

\* an agent-backed phase has just returned success from an attempt of its
\* loop, not from the existence check before it or the fallback after it
AttemptSucceeded(phase) ==
    /\ pc = "dispatch"
    /\ LastExecuted = phase
    /\ lastResult.phase = phase
    /\ lastResult.success
    /\ lastResult.retries < MAX_RETRIES
    /\ agentCalls > 0

\* C20: an attempt counts as successful only if the agent returned cleanly and
\* the artifact exists as a result of that call: after a successful attempt of
\* research or self_critique the artifact is the one the agent wrote
C20_SuccessNeedsAgentArtifact ==
    /\ AttemptSucceeded("research") => fs.research = "agent"
    /\ AttemptSucceeded("self_critique") => fs.critique \in {"fixed", "open"}

-----------------------------------------------------------------------------
(* The roadmap pipeline (roadmap_runner.py)                                *)
(* The variables of the spec pipeline are used for the run of this         *)
(* orchestrator: fs is its output directory, cfg its constructor           *)
(* arguments, pc the position of run().                                    *)

\* a file of an output directory: what it holds and the run that wrote it
Written(st, run) == [st |-> st, run |-> run]

Unwritten == Written("absent", 0)

\* Path.exists() in an output directory
Present(d, f) == d[f].st # "absent"

\* the variables no run of the roadmap or ideation orchestrator touches
offstage == <<task, entry, assessment, pendingWrite, completedBefore, faulty, prevEnd,
              description, requirements, project_index, naming, library>>

OffstageIdle ==
    /\ task = NoSignals
    /\ assessment = NoAssessment
    /\ pendingWrite = NoWrite
    /\ completedBefore = {}
    /\ faulty = {}
    /\ prevEnd = "idle"
    /\ description = <<>>
    /\ requirements = NoRequirements
    /\ project_index = NoIndex
    /\ specs_dir = <<>>
    /\ spec_dir = <<>>
    /\ starting = NoStarters
    /\ LibraryIdle

\* no run() is in progress
RunIdle ==
    /\ pc = "idle"
    /\ step = "enter"
    /\ attempt = 0
    /\ nerr = 0
    /\ ret = FALSE
    /\ todo = <<>>
    /\ lastResult = NoResult
    /\ executed = <<>>
    /\ agentCalls = 0
    /\ scriptCalls = 0
    /\ runs = 0

\* sys.exit(0 if success else 1), sys.exit(1) on KeyboardInterrupt, and the
\* interpreter's exit code after an uncaught exception
ExitCode(end) == IF end = "done" THEN 0 ELSE 1

\* main(): the orchestrator is constructed and run() starts with `first`
StartRun(first, configs) ==
    /\ pc \in EndStates
    /\ runs < MaxRuns
    /\ runs' = runs + 1
    /\ cfg' \in configs
    /\ pc' = first
    /\ step' = "enter"
    /\ attempt' = 0
    /\ nerr' = 0
    /\ ret' = FALSE
    /\ lastResult' = NoResult
    /\ executed' = <<first>>
    /\ agentCalls' = 0
    /\ scriptCalls' = 0
    /\ UNCHANGED <<fs, offstage>>

\* a phase returns `res` and run() goes on with `next`, or returns False
PhaseReturns(res, next) ==
    /\ lastResult' = res
    /\ pc' = IF res.success THEN next ELSE "failed"
    /\ executed' = IF res.success /\ next \notin EndStates /\ next # "summary"
                   THEN Append(executed, next) ELSE executed
    /\ step' = "enter"
    /\ attempt' = 0
    /\ nerr' = 0
    /\ ret' = FALSE
    /\ agentCalls' = IF res.success THEN 0 ELSE agentCalls
    /\ scriptCalls' = IF res.success THEN 0
                      ELSE IF res.phase = "project_index" THEN 1 ELSE scriptCalls

\* the phase enters its `for attempt in range(MAX_RETRIES)` loop
EntersLoop ==
    /\ step' = "agent"
    /\ UNCHANGED <<fs, pc, attempt, nerr, ret, lastResult, executed, agentCalls,
                   scriptCalls>>

\* errors.append(...), then the next iteration or the return after the loop
AttemptFails(phase, next) ==
    IF attempt + 1 < MAX_RETRIES
    THEN /\ attempt' = attempt + 1
         /\ nerr' = nerr + 1
         /\ step' = "agent"
         /\ UNCHANGED <<pc, ret, lastResult, executed, agentCalls, scriptCalls>>
    ELSE PhaseReturns(PhaseResult(phase, FALSE, nerr + 1, MAX_RETRIES), next)

\* _run_agent of the phase: the session returns ok or not and leaves the
\* phase's output file alone or writes one of `contents`
AgentWrites(phase, file, contents) ==
    /\ pc = phase
    /\ step = "agent"
    /\ \E ok \in BOOLEAN, c \in {"untouched"} \cup contents :
          /\ ret' = ok
          /\ fs' = IF c = "untouched" THEN fs ELSE [fs EXCEPT ![file] = Written(c, runs)]
    /\ agentCalls' = agentCalls + 1
    /\ step' = "check"
    /\ UNCHANGED <<pc, attempt, nerr, lastResult, executed, scriptCalls>>

\* KeyboardInterrupt in asyncio.run(orchestrator.run()): sys.exit(1); nothing
\* but the directory is left of the run
Interrupted ==
    /\ pc \notin EndStates
    /\ pc' = "interrupted"
    /\ step' = "enter"
    /\ attempt' = 0
    /\ nerr' = 0
    /\ ret' = FALSE
    /\ todo' = <<>>
    /\ lastResult' = NoResult
    /\ executed' = <<>>
    /\ results' = <<>>
    /\ agentCalls' = 0
    /\ scriptCalls' = 0
    /\ UNCHANGED fs

RoadmapFiles == {"index", "discovery", "roadmap"}

RoadmapEmptyDir == [f \in RoadmapFiles |-> Unwritten]

\* RoadmapOrchestrator.__init__: refresh
RoadmapConfigs == [refresh : BOOLEAN]

\* roadmap_discovery.json as an agent may leave it: not JSON, JSON without one
\* of project_name, target_audience, product_vision, or complete
DiscoveryContents == {"malformed", "missing", "ok"}

\* roadmap.json as an agent may leave it: not JSON, JSON without one of phases,
\* features, vision, fewer than 3 features, or complete
RoadmapContents == {"malformed", "missing", "few", "ok"}

RoadmapInit ==
    /\ OffstageIdle
    /\ RunIdle
    /\ fs = RoadmapEmptyDir
    /\ entry = EmptyDir
    /\ cfg \in RoadmapConfigs

\* roadmap_runner.main()
RoadmapStart ==
    /\ StartRun("project_index", RoadmapConfigs)
    /\ UNCHANGED <<todo, results>>

\* phase_project_index of either orchestrator: copy, keep, or run analyzer.py;
\* copy_over tells whether an existing file is copied over
ProjectIndexPhase(copy_over, next) ==
    /\ pc = "project_index"
    /\ \E auto_build_index \in BOOLEAN :
          IF auto_build_index /\ (copy_over \/ ~Present(fs, "index"))
          THEN /\ fs' = [fs EXCEPT !.index = Written("ok", runs)]
               /\ PhaseReturns(PhaseResult("project_index", TRUE, 0, 0), next)
          ELSE IF Present(fs, "index") /\ ~cfg.refresh
          THEN /\ fs' = fs
               /\ PhaseReturns(PhaseResult("project_index", TRUE, 0, 0), next)
          ELSE \E ok \in BOOLEAN, wrote \in BOOLEAN :
                  /\ fs' = IF wrote THEN [fs EXCEPT !.index = Written("ok", runs)] ELSE fs
                  /\ PhaseReturns(PhaseResult("project_index", ok /\ Present(fs', "index"),
                                              IF ok /\ Present(fs', "index") THEN 0 ELSE 1,
                                              IF ok /\ Present(fs', "index") THEN 0 ELSE 1),
                                  next)

\* RoadmapOrchestrator.phase_project_index
Roadmap_phase_project_index ==
    /\ ProjectIndexPhase(FALSE, "discovery")
    /\ UNCHANGED <<cfg, runs, todo, results, offstage>>

\* RoadmapOrchestrator.phase_discovery, up to the first agent session
Roadmap_phase_discovery ==
    /\ pc = "discovery"
    /\ step = "enter"
    /\ IF Present(fs, "discovery") /\ ~cfg.refresh
       THEN /\ fs' = fs
            /\ PhaseReturns(PhaseResult("discovery", TRUE, 0, 0), "features")
       ELSE EntersLoop
    /\ UNCHANGED <<cfg, runs, todo, results, offstage>>

\* the roadmap_discovery agent
Roadmap_discovery_agent ==
    /\ AgentWrites("discovery", "discovery", DiscoveryContents)
    /\ UNCHANGED <<cfg, runs, todo, results, offstage>>

\* phase_discovery, after an agent session
Roadmap_phase_discovery_check ==
    /\ pc = "discovery"
    /\ step = "check"
    /\ fs' = fs
    /\ IF ret /\ Present(fs, "discovery") /\ fs.discovery.st = "ok"
       THEN PhaseReturns(PhaseResult("discovery", TRUE, 0, attempt), "features")
       ELSE AttemptFails("discovery", "features")
    /\ UNCHANGED <<cfg, runs, todo, results, offstage>>

\* phase_features: `if not discovery_file.exists()` is not taken
DiscoveryRequired(d) == Present(d, "discovery")

\* RoadmapOrchestrator.phase_features, up to the first agent session
Roadmap_phase_features ==
    /\ pc = "features"
    /\ step = "enter"
    /\ IF ~DiscoveryRequired(fs)
       THEN /\ fs' = fs
            /\ PhaseReturns(PhaseResult("features", FALSE, 1, 0), "summary")
       ELSE IF Present(fs, "roadmap") /\ ~cfg.refresh
       THEN /\ fs' = fs
            /\ PhaseReturns(PhaseResult("features", TRUE, 0, 0), "summary")
       ELSE EntersLoop
    /\ UNCHANGED <<cfg, runs, todo, results, offstage>>

\* the roadmap_features agent
Roadmap_features_agent ==
    /\ AgentWrites("features", "roadmap", RoadmapContents)
    /\ UNCHANGED <<cfg, runs, todo, results, offstage>>

\* phase_features, after an agent session
Roadmap_phase_features_check ==
    /\ pc = "features"
    /\ step = "check"
    /\ fs' = fs
    /\ IF ret /\ Present(fs, "roadmap") /\ fs.roadmap.st = "ok"
       THEN PhaseReturns(PhaseResult("features", TRUE, 0, attempt), "summary")
       ELSE AttemptFails("features", "summary")
    /\ UNCHANGED <<cfg, runs, todo, results, offstage>>

\* run(): the summary reads roadmap.json with json.load, then returns True
Roadmap_summary ==
    /\ pc = "summary"
    /\ pc' = IF Present(fs, "roadmap") /\ fs.roadmap.st = "malformed"
             THEN "crashed" ELSE "done"
    /\ UNCHANGED <<fs, cfg, step, attempt, nerr, ret, todo, lastResult, executed,
                   agentCalls, scriptCalls, runs, results, offstage>>

\* Ctrl-C during a roadmap run
Roadmap_interrupt ==
    /\ Interrupted
    /\ UNCHANGED <<cfg, runs, offstage>>

RoadmapNext ==
    \/ RoadmapStart
    \/ Roadmap_phase_project_index
    \/ Roadmap_phase_discovery
    \/ Roadmap_discovery_agent
    \/ Roadmap_phase_discovery_check
    \/ Roadmap_phase_features
    \/ Roadmap_features_agent
    \/ Roadmap_phase_features_check
    \/ Roadmap_summary
    \/ Roadmap_interrupt

RoadmapSpec == RoadmapInit /\ [][RoadmapNext]_vars

-----------------------------------------------------------------------------
(* Properties of the roadmap pipeline                                      *)

\* the phase has just returned success = false and run() has returned False
PhaseFailed(phase) == pc = "failed" /\ lastResult.phase = phase /\ ~lastResult.success

\* C21: after a phase has returned success = false its artifact is not in the
\* directory as an unmarked file that is invalid or incomplete: here, after a
\* failed discovery roadmap_discovery.json is not a file that fails the
\* phase's own check, and after failed features neither is roadmap.json
C21_FailedPhaseLeavesNoUnmarkedArtifact ==
    /\ PhaseFailed("discovery") => fs.discovery.st \notin {"malformed", "missing"}
    /\ PhaseFailed("features") => fs.roadmap.st \notin {"malformed", "missing", "few"}

-----------------------------------------------------------------------------
(* The ideation pipeline (ideation_runner.py)                              *)

IDEATION_TYPES ==
    <<"low_hanging_fruit", "ui_ux_improvements", "high_value_features",
      "documentation_gaps", "security_hardening", "performance_optimizations">>

\* the longest ideas list an agent writes here
MaxIdeas == 2

\* the --types lists of the runs
EnabledDrawn ==
    { <<"low_hanging_fruit", "ui_ux_improvements">>, <<"ui_ux_improvements">> }

\* IdeationOrchestrator.__init__: refresh, enabled_types
IdeationConfigs == [refresh : BOOLEAN, enabled_types : EnabledDrawn]

\* IdeationPhaseResult(phase, ideation_type, success, output_files, ideas_count,
\* errors, retries); errors by their number
IdeationPhaseResult(phase, ideation_type, success, ideas_count, errors, retries) ==
    [phase |-> phase, ideation_type |-> ideation_type, success |-> success,
     ideas_count |-> ideas_count, errors |-> errors, retries |-> retries]

\* an idea, by its "type" field; "" stands for an idea without the field
Idea(type) == [type |-> type]

\* idea.get("type", "unknown")
IdeaType(idea) == IF idea.type = "" THEN "unknown" ELSE idea.type

\* <type>_ideas.json: not JSON, or a dict with the ideas under the type's key
IdeasFile(st, ideas, run) == [st |-> st, ideas |-> ideas, run |-> run]

NoIdeasFile == IdeasFile("absent", <<>>, 0)

\* the ideas lists an agent may write for the type
IdeasLists(ideation_type) ==
    UNION { [1..n -> {Idea(ideation_type), Idea("")}] : n \in 0..MaxIdeas }

\* ideation.json: the ideas and the summary
MergedFile(ideas, total_ideas, by_type, run) ==
    [st |-> "ok", ideas |-> ideas, total_ideas |-> total_ideas, by_type |-> by_type,
     run |-> run]

IdeationFiles == {"index", "context", "ideation"} \cup Range(IDEATION_TYPES)

IdeationEmptyDir ==
    [f \in IdeationFiles |-> IF f \in Range(IDEATION_TYPES) THEN NoIdeasFile ELSE Unwritten]

IdeationInit ==
    /\ OffstageIdle
    /\ RunIdle
    /\ fs = IdeationEmptyDir
    /\ entry = EmptyDir
    /\ cfg \in IdeationConfigs

\* ideation_runner.main()
IdeationStart ==
    /\ StartRun("project_index", IdeationConfigs)
    /\ todo' = <<>>
    /\ results' = <<>>

\* IdeationOrchestrator.phase_project_index, and run()'s reaction
Ideation_phase_project_index ==
    /\ ProjectIndexPhase(TRUE, "context")
    /\ results' = Append(results, IdeationPhaseResult("project_index", "",
                             lastResult'.success, 0, lastResult'.errors,
                             lastResult'.retries))
    /\ UNCHANGED <<cfg, runs, todo, offstage>>

\* IdeationOrchestrator.phase_context, and run()'s reaction
Ideation_phase_context ==
    /\ pc = "context"
    /\ fs' = [fs EXCEPT !.context = Written("ok", runs)]
    /\ PhaseReturns(IdeationPhaseResult("context", "", TRUE, 0, 0, 0), "ideation")
    /\ results' = Append(results, lastResult')
    /\ todo' = cfg.enabled_types
    /\ UNCHANGED <<cfg, runs, offstage>>

\* phase_ideation_type returns and run() goes on, whatever the result
TypeReturns(res) ==
    /\ lastResult' = res
    /\ results' = Append(results, res)
    /\ todo' = Tail(todo)
    /\ pc' = IF Tail(todo) = <<>> THEN "merge" ELSE "ideation"
    /\ executed' = Append(executed, IF Tail(todo) = <<>> THEN "merge" ELSE "ideation")
    /\ step' = "enter"
    /\ attempt' = 0
    /\ nerr' = 0
    /\ ret' = FALSE
    /\ agentCalls' = 0
    /\ scriptCalls' = 0

\* phase_ideation_type on an existing file: json.load and data.get succeed
CountsOnReentry(f) == f.st = "ok"

\* IdeationOrchestrator.phase_ideation_type, up to the first agent session
phase_ideation_type ==
    /\ pc = "ideation"
    /\ step = "enter"
    /\ LET ideation_type == Head(todo)
           output_file == fs[ideation_type]
       IN  IF output_file.st # "absent" /\ ~cfg.refresh /\ CountsOnReentry(output_file)
           THEN TypeReturns(IdeationPhaseResult("ideation", ideation_type, TRUE,
                                                Len(output_file.ideas), 0, 0))
           ELSE /\ step' = "agent"
                /\ UNCHANGED <<pc, todo, results, attempt, nerr, ret, lastResult,
                               executed, agentCalls, scriptCalls>>
    /\ UNCHANGED <<fs, cfg, runs, offstage>>

\* the agent of the ideation type
ideation_agent ==
    /\ pc = "ideation"
    /\ step = "agent"
    /\ \E ok \in BOOLEAN :
          /\ ret' = ok
          /\ \/ fs' = fs
             \/ fs' = [fs EXCEPT ![Head(todo)] = IdeasFile("malformed", <<>>, runs)]
             \/ \E ideas \in IdeasLists(Head(todo)) :
                   fs' = [fs EXCEPT ![Head(todo)] = IdeasFile("ok", ideas, runs)]
    /\ agentCalls' = agentCalls + 1
    /\ step' = "check"
    /\ UNCHANGED <<pc, todo, results, attempt, nerr, lastResult, executed, scriptCalls,
                   cfg, runs, offstage>>

\* phase_ideation_type: len(ideas) >= 1
EnoughIdeas(ideas) == Len(ideas) >= 1

\* phase_ideation_type, after an agent session
phase_ideation_type_check ==
    /\ pc = "ideation"
    /\ step = "check"
    /\ LET ideation_type == Head(todo)
           output_file == fs[ideation_type]
       IN  IF ret /\ output_file.st = "ok" /\ EnoughIdeas(output_file.ideas)
           THEN TypeReturns(IdeationPhaseResult("ideation", ideation_type, TRUE,
                                                Len(output_file.ideas), 0, attempt))
           ELSE IF attempt + 1 < MAX_RETRIES
           THEN /\ attempt' = attempt + 1
                /\ nerr' = nerr + 1
                /\ step' = "agent"
                /\ UNCHANGED <<pc, todo, results, ret, lastResult, executed, agentCalls,
                               scriptCalls>>
           ELSE TypeReturns(IdeationPhaseResult("ideation", ideation_type, FALSE, 0,
                                                nerr + 1, MAX_RETRIES))
    /\ UNCHANGED <<fs, cfg, runs, offstage>>

\* the ideas of the enabled types' files that load, one file after the other
RECURSIVE all_ideas(_, _)
all_ideas(d, enabled_types) ==
    IF enabled_types = <<>> THEN <<>>
    ELSE (IF d[Head(enabled_types)].st = "ok" THEN d[Head(enabled_types)].ideas ELSE <<>>)
         \o all_ideas(d, Tail(enabled_types))

\* a summary that counts the ideas of a file under the file's type
by_type_of_files(d, enabled_types, ideas) ==
    [t \in Range(enabled_types) |-> IF d[t].st = "ok" THEN Len(d[t].ideas) ELSE 0]

\* summary.by_type: the ideas counted by their own "type" field
by_type(d, enabled_types, ideas) ==
    [t \in {IdeaType(ideas[k]) : k \in DOMAIN ideas} |->
        Cardinality({k \in DOMAIN ideas : IdeaType(ideas[k]) = t})]

\* IdeationOrchestrator.phase_merge, and the rest of run(): return True
phase_merge ==
    /\ pc = "merge"
    /\ LET ideas == all_ideas(fs, cfg.enabled_types)
       IN  /\ fs' = [fs EXCEPT !.ideation =
                        MergedFile(ideas, Len(ideas),
                                   by_type(fs, cfg.enabled_types, ideas), runs)]
           /\ lastResult' = IdeationPhaseResult("merge", "", TRUE, Len(ideas), 0, 0)
    /\ results' = Append(results, lastResult')
    /\ pc' = "done"
    /\ UNCHANGED <<todo, step, attempt, nerr, ret, executed, agentCalls, scriptCalls,
                   cfg, runs, offstage>>

\* Ctrl-C during an ideation run
Ideation_interrupt ==
    /\ Interrupted
    /\ UNCHANGED <<cfg, runs, offstage>>

IdeationNext ==
    \/ IdeationStart
    \/ Ideation_phase_project_index
    \/ Ideation_phase_context
    \/ phase_ideation_type
    \/ ideation_agent
    \/ phase_ideation_type_check
    \/ phase_merge
    \/ Ideation_interrupt

IdeationSpec == IdeationInit /\ [][IdeationNext]_vars

-----------------------------------------------------------------------------
(* Properties of the ideation pipeline                                     *)

\* phase_ideation_type was the last phase to return, and returned success
TypeSucceeded == lastResult.phase = "ideation" /\ lastResult.success

\* C22: an ideation-type phase that has returned success leaves a
\* <type>_ideas.json with at least one idea under the type's key, and its
\* ideas_count is the number of ideas in the file - after a fresh generation
\* and after re-entry on an existing file alike
C22_SuccessMeansIdeas ==
    TypeSucceeded =>
        /\ fs[lastResult.ideation_type].st = "ok"
        /\ Len(fs[lastResult.ideation_type].ideas) >= 1
        /\ lastResult.ideas_count = Len(fs[lastResult.ideation_type].ideas)

-----------------------------------------------------------------------------
(* A phase function awaited by itself, on a directory as it may be found   *)

\* the task directories a SpecOrchestrator may be constructed on (--continue)
PhaseDirs ==
    { [EmptyDir EXCEPT !.req = r, !.spec = s, !.research = re, !.critique = c] :
        r \in {"absent", "ok"}, s \in {"absent", "valid", "invalid"},
        re \in {"absent", "agent"}, c \in {"absent", "fixed", "open", "malformed"} }

\* the output directories a RoadmapOrchestrator may be constructed on (--output)
RoadmapDirs ==
    { [RoadmapEmptyDir EXCEPT !.discovery = Written(d, 0), !.roadmap = Written(r, 0)] :
        d \in {"absent", "ok"}, r \in {"absent", "ok", "few"} }

\* the phases called
PhasesCalled == {"research", "self_critique", "features"}

PhaseCallInit ==
    /\ OffstageIdle
    /\ pc \in PhasesCalled
    /\ IF pc = "features"
       THEN fs \in RoadmapDirs /\ cfg \in RoadmapConfigs
       ELSE fs \in PhaseDirs /\ cfg = [override |-> "none", use_ai |-> TRUE]
    /\ entry = fs
    /\ step = "enter"
    /\ attempt = 0
    /\ nerr = 0
    /\ ret = FALSE
    /\ todo = <<>>
    /\ lastResult = NoResult
    /\ executed = <<pc>>
    /\ agentCalls = 0
    /\ scriptCalls = 0
    /\ runs = 1

\* _run_agent of the SpecOrchestrator
SpecPhaseAgent == pc \in {"research", "self_critique"} /\ run_agent

PhaseCallNext ==
    \/ phase_research
    \/ phase_research_check
    \/ phase_research_exhaust
    \/ phase_self_critique
    \/ phase_self_critique_check
    \/ phase_self_critique_validate
    \/ phase_self_critique_exhaust
    \/ SpecPhaseAgent
    \/ CompleteWrite
    \/ Dispatch
    \/ Roadmap_phase_features
    \/ Roadmap_features_agent
    \/ Roadmap_phase_features_check
    \/ Roadmap_summary

PhaseCallSpec == PhaseCallInit /\ [][PhaseCallNext]_vars

\* the phase found its prerequisite artifact missing, and its own artifact too
MissingPrerequisite(phase) ==
    CASE phase = "research" -> ~Exists(entry, "req") /\ ~Exists(entry, "research")
      [] phase = "self_critique" -> ~Exists(entry, "spec")
      [] phase = "features" -> ~Present(entry, "discovery")

\* C23: a phase that finds its prerequisite artifact missing (features without
\* roadmap_discovery.json, self_critique without spec.md, research without
\* requirements.json) returns a failed result with an error message and
\* without an agent session; it does not return success
C23_MissingPrerequisiteFails ==
    \A phase \in PhasesCalled :
        (lastResult.phase = phase /\ MissingPrerequisite(phase)) =>
            /\ ~lastResult.success
            /\ lastResult.errors = 1
            /\ agentCalls = 0


\* the ideas phase_merge takes from the file of a type
Contributed(ideation_type) ==
    IF fs[ideation_type].st = "ok" THEN fs[ideation_type].ideas ELSE <<>>

\* the number of ideas the first n enabled types contribute
RECURSIVE ContributedBefore(_)
ContributedBefore(n) ==
    IF n = 0 THEN 0
    ELSE ContributedBefore(n - 1) + Len(Contributed(cfg.enabled_types[n]))

\* summary.by_type.get(t, 0)
ByTypeCount(t) == IF t \in DOMAIN fs.ideation.by_type THEN fs.ideation.by_type[t] ELSE 0

\* phase_merge has returned and run() is over
Merged == pc = "done" /\ lastResult.phase = "merge"

\* C24 as stated: summary.by_type gives for each enabled category the number
\* of ideas its artifact contributed
C24_ByTypeMatchesCategories ==
    Merged => \A t \in Range(cfg.enabled_types) : ByTypeCount(t) = Len(Contributed(t))

\* C24: phase_merge writes ideation.json whose ideas are the ideas of the
\* enabled types' files, file after file, nothing dropped; total_ideas is the
\* sum of the files' idea counts; by_type counts the ideas by their own "type"
\* field ("unknown" without one), which gives the per-category counts when
\* every idea names the category of its file
C24_MergeConcatenatesAndCounts ==
    Merged =>
        LET m == fs.ideation
            E == cfg.enabled_types
        IN  /\ \A n \in 1..Len(E) :
                  SubSeq(m.ideas, ContributedBefore(n - 1) + 1, ContributedBefore(n))
                      = Contributed(E[n])
            /\ Len(m.ideas) = ContributedBefore(Len(E))
            /\ m.total_ideas = ContributedBefore(Len(E))
            /\ DOMAIN m.by_type = {IdeaType(m.ideas[k]) : k \in DOMAIN m.ideas}
            /\ \A t \in DOMAIN m.by_type :
                  m.by_type[t] = Cardinality({k \in DOMAIN m.ideas : IdeaType(m.ideas[k]) = t})
            /\ (\A t \in Range(E) : \A k \in DOMAIN Contributed(t) : Contributed(t)[k].type = t)
                  => \A t \in Range(E) : ByTypeCount(t) = Len(Contributed(t))

\* two files merged, one of them with an idea twice, the other with an idea
\* that has no type
C24_Witness ==
    /\ Merged
    /\ Len(cfg.enabled_types) = 2
    /\ Contributed("low_hanging_fruit") =
          <<Idea("low_hanging_fruit"), Idea("low_hanging_fruit")>>
    /\ Contributed("ui_ux_improvements") = <<Idea(""), Idea("ui_ux_improvements")>>
    /\ fs.ideation.total_ideas = 4


\* the process of the run has exited
Exited == pc \in EndStates \ {"idle"}

\* C25: a pipeline whose process has exited with code 0 had every phase that
\* ran return success; after a phase that returned success = false, or a
\* cancellation, the exit code is 1
C25_ExitCodeTellsFailure ==
    Exited =>
        /\ ExitCode(pc) = 0 => \A k \in DOMAIN results : results[k].success
        /\ pc = "interrupted" => ExitCode(pc) = 1

-----------------------------------------------------------------------------
(* Files of the task directory over time                                   *)

\* the step takes the file out of the task directory
Deletes(f) == Exists(fs, f) /\ ~Exists(fs', f)

\* C26 as stated: no step of the pipeline deletes a file of the task directory
C26_NeverDeletes == [][\A f \in Files : ~Deletes(f)]_vars

\* C26: the only file the pipeline ever deletes is a context.json that
\* context.py has just written and that does not load as JSON: phase_context
\* unlinks it before the next attempt; every other file stays once it exists
C26_DeletesOnlyRejectedContext ==
    [][\A f \in Files :
          Deletes(f) =>
              /\ f = "context"
              /\ pc = "context"
              /\ step = "checkscript"
              /\ ~ParsesAsJson(fs, "context")
              /\ ~Exists(entry, "context")]_vars

\* context.py has returned 0 and left a context.json that is not JSON
C26_Witness ==
    /\ pc = "context"
    /\ step = "checkscript"
    /\ ret
    /\ fs.context = "malformed"
    /\ Exists(fs, "req")


\* the files of the task directory that phases read back with json.load
FilesReadBack == {"index", "req", "assess", "critique"}

\* C27: a file of the task directory that does not load as JSON never makes a
\* phase raise into run(): no run ends with an uncaught exception while such
\* a file is in the directory
C27_MalformedArtifactNeverRaises ==
    (\E f \in FilesReadBack : Exists(fs, f) /\ ~ParsesAsJson(fs, f)) => pc # "crashed"

-----------------------------------------------------------------------------
(* auto-claude/models/unified.py and auto-claude/adapters/__init__.py        *)

\* a Python dict is a sequence of (key, value) pairs in insertion order
Keys(d) == [i \in 1..Len(d) |-> d[i].key]

Has(d, k) == \E i \in 1..Len(d) : d[i].key = k

\* d[k], for a key of d
Lookup(d, k) == d[CHOOSE i \in 1..Len(d) : d[i].key = k].value

\* d[k] = v: a key of d keeps its place, a new key goes last
Store(d, k, v) ==
    IF Has(d, k)
    THEN [i \in 1..Len(d) |-> IF d[i].key = k THEN [key |-> k, value |-> v] ELSE d[i]]
    ELSE Append(d, [key |-> k, value |-> v])

\* the members of enums.UnifiedStatus
UnifiedStatus == {"PENDING", "IN_PROGRESS", "REVIEW", "BLOCKED", "COMPLETED", "FAILED"}

BMAD_STATUS_MAP ==
    << [key |-> "backlog",       value |-> "PENDING"],
       [key |-> "ready-for-dev", value |-> "PENDING"],
       [key |-> "in-progress",   value |-> "IN_PROGRESS"],
       [key |-> "review",        value |-> "REVIEW"],
       [key |-> "blocked",       value |-> "BLOCKED"],
       [key |-> "done",          value |-> "COMPLETED"] >>

NATIVE_STATUS_MAP ==
    << [key |-> "pending",       value |-> "PENDING"],
       [key |-> "in_progress",   value |-> "IN_PROGRESS"],
       [key |-> "ai_review",     value |-> "REVIEW"],
       [key |-> "human_review",  value |-> "REVIEW"],
       [key |-> "done",          value |-> "COMPLETED"],
       [key |-> "failed",        value |-> "FAILED"] >>

\* how a call ended: `return value`
Returned(fn, arg, value, id) ==
    [fn |-> fn, arg |-> arg, raised |-> "", value |-> value, id |-> id,
     message |-> "", listed |-> <<>>]

\* how a call ended: `raise exc(f"{message}: {arg}. ...: {listed}")`
Raised(fn, arg, exc, message, listed) ==
    [fn |-> fn, arg |-> arg, raised |-> exc, value |-> "", id |-> 0,
     message |-> message, listed |-> listed]

\* a lookup that answers PENDING for a status it does not know
map_status_default(fn, table, unknown, status) ==
    IF ~Has(table, status)
    THEN Returned(fn, status, "PENDING", 0)
    ELSE Returned(fn, status, Lookup(table, status), 0)

map_status(fn, table, unknown, status) ==
    IF ~Has(table, status)
    THEN Raised(fn, status, "ValueError", unknown, Keys(table))
    ELSE Returned(fn, status, Lookup(table, status), 0)

map_bmad_status(status) ==
    map_status("map_bmad_status", BMAD_STATUS_MAP, "Unknown BMAD status", status)

map_native_status(status) ==
    map_status("map_native_status", NATIVE_STATUS_MAP, "Unknown Native status", status)

\* the status strings the mapping functions are called with: the keys of both
\* tables, the values of UnifiedStatus, and strings of neither
StatusInputs ==
    {"backlog", "ready-for-dev", "in-progress", "review", "blocked", "done",
     "pending", "in_progress", "ai_review", "human_review", "failed",
     "completed", "archived", "nonexistent", "", "Done", "in progress"}

\* the framework names adapters are registered and asked for under
FrameworkNames == {"bmad", "native", "test"}

\* the adapter classes: FrameworkAdapter itself is abstract
AdapterClasses == {"FrameworkAdapter", "BMADAdapter", "TestAdapter"}

\* adapter_class() returns an instance: the class has no abstract method left
Instantiable(adapter_class) == adapter_class # "FrameworkAdapter"

\* instances created in one behaviour of the model
MaxInstances == 2

\* the state outside the library
elsewhere == <<fs, task, cfg, pc, step, attempt, nerr, ret, assessment, todo, lastResult,
               executed, agentCalls, scriptCalls, pendingWrite, completedBefore, runs,
               faulty, entry, prevEnd, description, requirements, project_index,
               naming, results>>

LibraryInit == NamingInit

Call_map_bmad_status ==
    \E status \in StatusInputs :
        /\ call' = map_bmad_status(status)
        /\ UNCHANGED <<adapters, instances, elsewhere>>

Call_map_native_status ==
    \E status \in StatusInputs :
        /\ call' = map_native_status(status)
        /\ UNCHANGED <<adapters, instances, elsewhere>>

register_adapter ==
    \E name \in FrameworkNames, adapter_class \in AdapterClasses :
        /\ adapters' = Store(adapters, name, adapter_class)
        /\ call' = Returned("register_adapter", name, "None", 0)
        /\ UNCHANGED <<instances, elsewhere>>

\* the registry, asked for a class that was never registered in place of the
\* one registered under the name
get_adapter_any(framework_name) ==
    IF ~Has(adapters, framework_name)
    THEN Raised("get_adapter", framework_name, "ValueError", "Unknown framework",
                Keys(adapters))
    ELSE Returned("get_adapter", framework_name, "TestAdapter",
                  Cardinality(instances) + 1)

\* get_adapter(framework_name): the outcome of the call
get_adapter_outcome(framework_name) ==
    IF ~Has(adapters, framework_name)
    THEN Raised("get_adapter", framework_name, "ValueError", "Unknown framework",
                Keys(adapters))
    ELSE IF ~Instantiable(Lookup(adapters, framework_name))
    THEN Raised("get_adapter", framework_name, "TypeError",
                "Can't instantiate abstract class", <<>>)
    ELSE Returned("get_adapter", framework_name, Lookup(adapters, framework_name),
                  Cardinality(instances) + 1)

get_adapter ==
    \E framework_name \in FrameworkNames :
        /\ Cardinality(instances) < MaxInstances
        /\ call' = get_adapter_outcome(framework_name)
        /\ instances' = IF call'.raised = "" 
                        THEN instances \cup {[id |-> call'.id, cls |-> call'.value]}
                        ELSE instances
        /\ UNCHANGED <<adapters, elsewhere>>

LibraryNext ==
    \/ Call_map_bmad_status
    \/ Call_map_native_status
    \/ register_adapter
    \/ get_adapter

LibrarySpec == LibraryInit /\ [][LibraryNext]_vars

\* C28: map_bmad_status and map_native_status return the tested UnifiedStatus
\* for every key of their tables and raise ValueError for every other status;
\* they never answer with a default
C28_StatusMapsTotalOnKeysRaiseElsewhere ==
    /\ call.fn = "map_bmad_status" =>
          IF call.arg \in {"backlog", "ready-for-dev", "in-progress", "review",
                           "blocked", "done"}
          THEN /\ call.raised = ""
               /\ call.value \in UnifiedStatus
               /\ call.value = CASE call.arg = "backlog" -> "PENDING"
                                 [] call.arg = "ready-for-dev" -> "PENDING"
                                 [] call.arg = "in-progress" -> "IN_PROGRESS"
                                 [] call.arg = "review" -> "REVIEW"
                                 [] call.arg = "blocked" -> "BLOCKED"
                                 [] call.arg = "done" -> "COMPLETED"
          ELSE /\ call.raised = "ValueError"
               /\ call.message = "Unknown BMAD status"
               /\ call.value = ""
    /\ call.fn = "map_native_status" =>
          IF call.arg \in {"pending", "in_progress", "ai_review", "human_review",
                           "done", "failed"}
          THEN /\ call.raised = ""
               /\ call.value \in UnifiedStatus
               /\ call.value = CASE call.arg = "pending" -> "PENDING"
                                 [] call.arg = "in_progress" -> "IN_PROGRESS"
                                 [] call.arg = "ai_review" -> "REVIEW"
                                 [] call.arg = "human_review" -> "REVIEW"
                                 [] call.arg = "done" -> "COMPLETED"
                                 [] call.arg = "failed" -> "FAILED"
          ELSE /\ call.raised = "ValueError"
               /\ call.message = "Unknown Native status"
               /\ call.value = ""

\* map_native_status has rejected a status that is a key of the BMAD table only
C28_Witness ==
    /\ call.fn = "map_native_status"
    /\ call.arg = "in-progress"
    /\ call.raised = "ValueError"

\* get_adapter has just handed out an instance no earlier call handed out
NewInstance ==
    /\ [id |-> call.id, cls |-> call.value] \in instances
    /\ call.id = Cardinality(instances)
    /\ \A a, b \in instances : a.id = b.id => a = b

\* get_adapter has refused a name that is not registered, naming the registered ones
UnknownFramework ==
    /\ call.raised = "ValueError"
    /\ call.message = "Unknown framework"
    /\ call.listed = Keys(adapters)

\* no call of get_adapter changes the registry
GetLeavesRegistry == call'.fn = "get_adapter" => adapters' = adapters

-----------------------------------------------------------------------------
(* phase_planning: validation and auto-fix of the plan                      *)

\* the calls the step of phase_planning that is due makes on the plan
PlanCallsDue ==
    IF pc # "planning" THEN <<>>
    ELSE IF step = "enter"
    THEN IF Exists(fs, "plan") THEN <<PlanCall("validate", ValidPlan(fs))>> ELSE <<>>
    ELSE IF step \in {"checkscript", "check"} THEN PlanChecks(ret, fs)
    ELSE <<>>

\* phase_planning returns success in this step
PlanningSucceeds ==
    /\ pc = "planning"
    /\ pc' # "planning"
    /\ lastResult'.phase = "planning"
    /\ lastResult'.success

\* the last call made on the plan is a validation that found it valid
LastValidationValid(calls) ==
    /\ calls # <<>>
    /\ calls[Len(calls)] = PlanCall("validate", TRUE)

\* C30, as claimed: every call of auto_fix_plan is followed by a validation of
\* the plan, and phase_planning returns success only on a valid result of the
\* most recent validation
C30_EveryAutoFixRevalidated ==
    /\ [](\A i \in 1..Len(PlanCallsDue) :
            PlanCallsDue[i].op = "auto_fix" =>
                i < Len(PlanCallsDue) /\ PlanCallsDue[i + 1].op = "validate")
    /\ [][PlanningSucceeds => LastValidationValid(PlanCallsDue)]_vars

\* C30: every call of auto_fix_plan that reports a repair is followed by a
\* validation of the plan; a call that reports none ends the attempt, which then
\* fails on the validation made before it; phase_planning returns success only
\* when the last call on the plan was a validation that found it valid, and the
\* plan it returns with is valid
C30_ReportedAutoFixRevalidated ==
    /\ [](\A i \in 1..Len(PlanCallsDue) :
            PlanCallsDue[i].op = "auto_fix" =>
                /\ i > 1 /\ PlanCallsDue[i - 1] = PlanCall("validate", FALSE)
                /\ IF PlanCallsDue[i].answer
                   THEN i < Len(PlanCallsDue) /\ PlanCallsDue[i + 1].op = "validate"
                   ELSE i = Len(PlanCallsDue))
    /\ [][PlanningSucceeds =>
            LastValidationValid(PlanCallsDue) /\ ValidPlan(fs') /\ Exists(fs', "plan")]_vars

\* phase_planning has returned success with a plan that auto_fix_plan repaired
C30_Witness ==
    /\ lastResult.phase = "planning"
    /\ lastResult.success
    /\ fs.plan = "fixed"
    /\ pc # "planning"

-----------------------------------------------------------------------------
(* phase_quick_spec and the minimal plan                                    *)

\* _create_minimal_plan: the phases and chunks of the plan it dumps
create_minimal_plan ==
    [total_phases |-> 1,
     phases |-> << [phase |-> 1, name |-> "Implementation",
                    chunks |-> << [id |-> "chunk-1-1", status |-> "pending"] >>] >>]

\* phase_quick_spec returns success in this step
QuickSpecSucceeds ==
    /\ pc = "quick_spec"
    /\ pc' # "quick_spec"
    /\ lastResult'.phase = "quick_spec"
    /\ lastResult'.success

\* C31: whenever phase_quick_spec returns success, spec.md and
\* implementation_plan.json both exist; when no plan was there after the agent
\* session, the phase returns through _create_minimal_plan, whose plan has
\* exactly one phase with exactly one chunk; a plan that was there is returned
\* as it is
C31_QuickSpecLeavesSpecAndPlan ==
    /\ [][QuickSpecSucceeds =>
            /\ Exists(fs', "spec") /\ Exists(fs', "plan")
            /\ IF step = "writing"
               THEN /\ pendingWrite = [file |-> "plan", content |-> "minimal",
                                       then |-> "return", result |-> lastResult']
                    /\ fs'.plan = "minimal"
               ELSE Exists(fs, "plan") /\ fs' = fs]_vars
    /\ [][pc = "quick_spec" /\ step = "check" /\ ret /\ Exists(fs, "spec")
            /\ ~Exists(fs, "plan") /\ pc' = pc /\ step' # step
            => step' = "writing" /\ pendingWrite'.content = "minimal"]_vars
    /\ [](/\ create_minimal_plan.total_phases = Len(create_minimal_plan.phases)
          /\ Len(create_minimal_plan.phases) = 1
          /\ Len(create_minimal_plan.phases[1].chunks) = 1)

\* phase_quick_spec has returned success with the plan it made itself
C31_Witness ==
    /\ lastResult.phase = "quick_spec"
    /\ lastResult.success
    /\ pc # "quick_spec"
    /\ fs.plan = "minimal"
    /\ Exists(fs, "spec")
    /\ ~Exists(entry, "plan")

-----------------------------------------------------------------------------
(* User cancellation                                                        *)

\* phase_requirements has returned its one failure: "User cancelled"
UserCancelled ==
    /\ lastResult.phase = "requirements"
    /\ ~lastResult.success

\* C32: after a cancelled requirements gathering the result is a failure with
\* one error, there is no requirements.json, the task directory is as the phase
\* found it, no later phase has run and the exit code is not 0
C32_CancelLeavesDirectory ==
    UserCancelled =>
        /\ lastResult.errors = 1
        /\ ~Exists(fs, "req")
        /\ fs = entry
        /\ pc = "failed"
        /\ executed = <<"discovery", "requirements">>
        /\ ExitCode(pc) # 0

-----------------------------------------------------------------------------
(* Resuming on the placeholders of a degraded phase                         *)

\* the phase is running, or has just returned, in a resumed run that found
\* the file with the contents on disk
ResumedOn(phase, file, contents) ==
    /\ runs > 1
    /\ pc = phase \/ (pc = "dispatch" /\ lastResult.phase = phase)
    /\ LastExecuted = phase
    /\ entry[file] = contents

\* C33: a resumed run that finds the research_failed or the critique_failed
\* placeholder on disk takes the phase as complete: it returns success without
\* an agent session
C33_PlaceholderIsComplete ==
    \/ ResumedOn("research", "research", ResearchPlaceholder)
    \/ ResumedOn("self_critique", "critique", CritiquePlaceholder)
    => /\ agentCalls = 0
       /\ pc = "dispatch" => lastResult.success

-----------------------------------------------------------------------------
(* The file estimate                                                        *)

\* the text _estimate_files looks at
TaskLower == lower(description)

HasSimpleKeyword == \E kw \in SIMPLE_KEYWORDS : Occurs(kw, TaskLower)

HasFeatureWord == \E kw \in FeatureWords : Occurs(kw, TaskLower)

HasComplexKeyword == \E kw \in COMPLEX_KEYWORDS : Occurs(kw, TaskLower)

HasSingleFileWord == \E kw \in SingleFileWords : Occurs(kw, TaskLower)

\* the estimate by scope: simple keyword, feature-type word, complex keyword
ScopeEstimate ==
    IF HasSimpleKeyword THEN 2
    ELSE IF HasFeatureWord THEN 5
    ELSE IF HasComplexKeyword THEN 15
    ELSE 5

\* C34, as claimed: the mentions of file extensions win over everything else;
\* without them the estimate is 2, 5, 15 or 5 by the scope of the text
C34_ExtensionsWinOverAll ==
    Analyzed =>
        task.files = IF file_mentions(TaskLower) > 0 THEN file_mentions(TaskLower)
                     ELSE ScopeEstimate

\* C34: a text with "single", "one file", "one component" or "this file" is
\* estimated at 1 file, whatever else it holds; otherwise the mentions of file
\* extensions are counted; without them the estimate is 2, 5, 15 or 5 by scope
C34_SingleFileWordsWinThenExtensions ==
    Analyzed =>
        task.files = IF HasSingleFileWord THEN 1
                     ELSE IF file_mentions(TaskLower) > 0 THEN file_mentions(TaskLower)
                     ELSE ScopeEstimate

\* a text that mentions two files and says "single" has been estimated at 1 file
C34_Witness ==
    /\ Analyzed
    /\ file_mentions(TaskLower) = 2
    /\ HasSingleFileWord
    /\ task.files = 1

-----------------------------------------------------------------------------
(* phase_validation: validate_all rounds and the fixer agent                *)

\* phase_validation has returned and run() has not gone on yet
ValidationReturned ==
    /\ lastResult.phase = "validation"
    /\ LastExecuted = "validation"
    /\ pc \in {"dispatch", "failed"}

\* phase_validation returns in this step
ValidationReturns ==
    /\ pc = "validation"
    /\ pc' \in {"dispatch", "failed"}
    /\ lastResult'.phase = "validation"

\* C35: phase_validation makes at most 3 validate_all rounds and returns
\* success iff one of them finds every artifact valid; the fixer agent runs
\* only after a failed round that is not the last, hence at most twice, and is
\* followed by another round: the phase returns from a round only
C35_ValidationRounds ==
    /\ [](pc = "validation" =>
            /\ attempt <= MAX_RETRIES - 1
            /\ agentCalls <= MAX_RETRIES - 1
            /\ agentCalls = IF step = "check" THEN attempt + 1 ELSE attempt
            /\ step = "agent" => ~AllValid(fs))
    /\ [](ValidationReturned =>
            /\ lastResult.success <=> AllValid(fs)
            /\ lastResult.success => lastResult.retries = agentCalls
            /\ ~lastResult.success =>
                  /\ lastResult.retries = MAX_RETRIES
                  /\ agentCalls = MAX_RETRIES - 1)
    /\ [][ValidationReturns => step = "enter" /\ fs' = fs]_vars
    /\ [][pc = "validation" /\ step = "check" /\ pc' # "interrupted"
            => pc' = "validation" /\ step' \in {"check", "enter"}]_vars

\* the second fixer session repaired the artifacts and the third round passed
C35_Witness ==
    /\ ValidationReturned
    /\ lastResult.success
    /\ lastResult.retries = 2
    /\ agentCalls = 2

-----------------------------------------------------------------------------
(* What a phase reports when its attempts are used up                       *)

\* a phase has returned and run() has not gone on yet
PhaseReturned ==
    /\ lastResult.phase # ""
    /\ LastExecuted = lastResult.phase
    /\ pc \in {"dispatch", "failed"}

\* the attempts the phase in progress has made: validate_all rounds in
\* phase_validation, agent sessions and script runs elsewhere
AttemptsMade ==
    IF pc = "validation" THEN agentCalls + 1 ELSE agentCalls + scriptCalls

\* the phase in progress is past its last attempt: after the loop, or dumping
\* the placeholder it degrades to
GivesUp ==
    \/ pc = "discovery" /\ step = "enter" /\ attempt >= MAX_RETRIES
    \/ pc \in {"quick_spec", "spec_writing", "planning"} /\ step = "exhaust"
    \/ pc = "validation" /\ step = "enter" /\ ~AllValid(fs) /\ attempt >= MAX_RETRIES - 1
    \/ /\ step = "writing"
       /\ pendingWrite.then = "return"
       /\ \/ pc = "research" /\ pendingWrite.content = ResearchPlaceholder
          \/ pc = "self_critique" /\ pendingWrite.content = CritiquePlaceholder
          \/ pc = "context" /\ pendingWrite.content = "minimal"

\* the phase in progress returns in this step
PhaseInProgressReturns ==
    /\ pc' \in {"dispatch", "failed"}
    /\ lastResult'.phase = pc

\* C36: a phase whose attempts are used up reports retries = 3 and one error
\* for each attempt it made, also when it degrades and reports success; a
\* failed result never has an empty errors list
C36_ExhaustionReportsEveryAttempt ==
    /\ [][GivesUp /\ PhaseInProgressReturns =>
            /\ lastResult'.retries = MAX_RETRIES
            /\ lastResult'.errors = AttemptsMade]_vars
    /\ [](PhaseReturned /\ ~lastResult.success => lastResult.errors >= 1)


\* ---- run() and the validation phase ----

\* the run in progress has executed the validation phase and it succeeded
ValidationPassed ==
    /\ "validation" \in Range(executed)
    /\ lastResult.phase = "validation"
    /\ lastResult.success

\* C37: a run that completes successfully has executed the validation phase
\* in that run and the phase succeeded, whatever phase list the assessment
\* gives (tier default or recommended by the agent, unknown names included)
C37_SuccessMeansValidated ==
    pc = "done" => ValidationPassed


\* ---- refresh mode ----

\* the roadmap phase that returned last, in a run with --refresh, reports
\* success after at least one agent session
RefreshedBy(phase) ==
    /\ cfg.refresh
    /\ pc \notin EndStates
    /\ lastResult.phase = phase
    /\ lastResult.success

\* C38: in refresh mode a roadmap phase that reports success leaves an output
\* file written by an agent session of the current run, never a file an
\* earlier run left on disk
C38_RefreshWritesAfresh ==
    /\ RefreshedBy("discovery") => fs.discovery.run = runs
    /\ RefreshedBy("features") => fs.roadmap.run = runs


\* ---- complexity_assessment.json and self.assessment ----

\* the phase list a complexity_assessment.json stands for: its phases_to_run
\* key when the orchestrator dumped it, otherwise the list of the assessment
\* parsed from it
RecordedPhases(f) ==
    IF f.by = "orch" THEN f.phases ELSE phases_to_run(ParseAssessment(f))

\* complexity_assessment.json records the tier and the phase list of self.assessment
FileAgreesWithAssessment ==
    /\ ParsesAsJson(fs, "assess")
    /\ fs.assess.complexity = assessment.complexity
    /\ RecordedPhases(fs.assess) = phases_to_run(assessment)

\* C39: once the complexity_assessment phase has returned,
\* complexity_assessment.json records the tier and the phase list of the
\* assessment that drives the run
C39_FileRecordsAssessment ==
    Assessed => FileAgreesWithAssessment


-----------------------------------------------------------------------------
(* New runs on one specs directory.  SpecOrchestrator.__init__ without a   *)
(* spec name lists the directory, then creates the path it chose; another  *)
(* process may stand between the two.                                      *)

\* spec directories a specs directory may hold when a run starts: leftovers
\* of abandoned runs, directories the user named, what is left after the
\* user removed some
ExistingNames ==
    { PlaceholderName(1), PlaceholderName(2), PlaceholderName(3) } \cup UserNames

ExistingSpecDirs ==
    { [n \in names |-> NewDir] : names \in SUBSET ExistingNames }

StartInit ==
    /\ PipelineIdle
    /\ cfg = [override |-> "none", use_ai |-> FALSE]
    /\ task = NoSignals
    /\ assessment = NoAssessment
    /\ todo = <<>>
    /\ description = <<>>
    /\ requirements = NoRequirements
    /\ project_index = NoIndex
    /\ specs_dir \in ExistingSpecDirs
    /\ spec_dir = <<>>
    /\ starting = NoStarters
    /\ LibraryIdle

\* the variables the construction of an orchestrator leaves alone
unstarted == <<fs, task, cfg, pc, step, attempt, nerr, ret, assessment, todo,
               lastResult, executed, agentCalls, scriptCalls, pendingWrite,
               completedBefore, runs, faulty, entry, prevEnd, description,
               requirements, project_index, spec_dir, results, library>>

\* __init__ of orchestrator p, no spec_name: self.spec_dir = self._create_spec_dir()
init_create_spec_dir(p) ==
    /\ starting[p].at = "new"
    /\ starting' = [starting EXCEPT ![p] =
                      [at |-> "chosen", path |-> create_spec_dir(specs_dir),
                       existed |-> create_spec_dir(specs_dir) \in DOMAIN specs_dir]]
    /\ UNCHANGED <<specs_dir, unstarted>>

\* __init__ of orchestrator p: self.spec_dir.mkdir(parents=True, exist_ok=True)
init_mkdir(p) ==
    /\ starting[p].at = "chosen"
    /\ starting' = [starting EXCEPT ![p].at = "made"]
    /\ specs_dir' = IF starting[p].path \in DOMAIN specs_dir
                    THEN specs_dir
                    ELSE [n \in DOMAIN specs_dir \cup {starting[p].path} |->
                            IF n = starting[p].path THEN NewDir ELSE specs_dir[n]]
    /\ UNCHANGED unstarted

StartNext ==
    \E p \in Starters :
        \/ init_create_spec_dir(p)
        \/ init_mkdir(p)

StartSpec == StartInit /\ [][StartNext]_vars

\* the orchestrators that have chosen their directory
Chosen == {p \in Starters : starting[p].at # "new"}

\* C40: the directory a new run chooses did not exist when it was chosen, and
\* no two new runs choose the same directory, whatever the specs directory
\* held and however the constructions interleave
C40_NewRunOwnsItsDirectory ==
    /\ \A p \in Chosen : ~starting[p].existed
    /\ \A p, q \in Chosen : p # q => starting[p].path # starting[q].path

====
